---------------------------- MODULE Spec2Model ----------------------------
(***************************************************************************)
(* Ticket-sales chat bot: the per-chat session in the users collection,    *)
(* the Payment records, the chat-message state machine, the Paystack       *)
(* webhook / callback processor and the reminder sweep.                    *)
(*                                                                         *)
(* Money is counted in pesewas (1 GHS = 100), so 918.75 GHS is 91875.      *)
(* Chat texts are sequences of one-character strings, so that trimming,    *)
(* lower-casing and the e-mail pattern are computed, not assumed.          *)
(* An absent (undefined) field of a session is "-" for a text field, -1    *)
(* for a number and << >> for the e-mail address.                          *)
(***************************************************************************)
EXTENDS Integers, Sequences, FiniteSets, TLC

(***************************************************************************)
(* Bounds of the model.                                                    *)
(***************************************************************************)
\* payment references the provider hands out in one run
MaxRefs == 2
\* concurrent webhook deliveries (slot 0 is the callback's)
MaxWebhooks == 1
\* wallet transfers recorded per chat
MaxTransfers == 2
\* reminder messages recorded per chat
MaxReminders == 2
\* days the clock advances
MaxDay == 1
\* runs of the deadline sweep
MaxDeadlineRuns == 2
\* chat messages counted per chat; the runs that interleave a conversation with
\* payments and sweeps take no more
MaxMessages == 1

Chats == {"c1", "c2"}
\* the chat whose messages, payments and reminders the runs follow
Talkers == {"c1"}
Refs == 1..MaxRefs
WebhookSlots == 1..MaxWebhooks
Slots == 0..MaxWebhooks
IsCallback(d) == d = 0

(***************************************************************************)
(* Program constants.                                                      *)
(***************************************************************************)
GA_PRICE == 91875
VIP_PRICE == 161750
VIP_ADDITIONAL_AVAILABLE == 50

TICKETS == [GA |-> [name |-> "Wave 1: GA", price |-> GA_PRICE],
            VIP |-> [name |-> "Wave 1: VIP", price |-> VIP_PRICE]]

INSTALLMENT_PLANS == [GA |-> [A |-> <<36750, 27563, 27562>>, B |-> <<45938, 45937>>],
                      VIP |-> [A |-> <<64700, 48525, 48525>>, B |-> <<80875, 80875>>]]

\* the SESSION_STATES object: the keys it has, each mapped to its own name
SESSION_STATES == [WELCOME |-> "WELCOME",
                   MAIN_MENU |-> "MAIN_MENU",
                   SELECT_TICKET |-> "SELECT_TICKET",
                   SELECT_PAYMENT_TYPE |-> "SELECT_PAYMENT_TYPE",
                   SELECT_INSTALLMENT_PLAN |-> "SELECT_INSTALLMENT_PLAN",
                   AWAITING_EMAIL |-> "AWAITING_EMAIL",
                   AWAITING_PAYMENT |-> "AWAITING_PAYMENT",
                   WALLET_TRANSFER |-> "WALLET_TRANSFER"]

\* the value of a JavaScript expression that evaluates to undefined
UNDEFINED == "undefined"

\* SESSION_STATES.<key>: a key the object lacks reads as undefined
StateConst(key) == IF key \in DOMAIN SESSION_STATES THEN SESSION_STATES[key] ELSE UNDEFINED

\* the SessionState union of the session types
SessionState == {"WELCOME", "MAIN_MENU", "SELECT_TICKET", "SELECT_PAYMENT_TYPE",
                 "SELECT_INSTALLMENT_PLAN", "AWAITING_EMAIL", "AWAITING_COUPON_ANSWER",
                 "AWAITING_COUPON_CODE", "AWAITING_CONTINUE_ANSWER", "AWAITING_PAYMENT",
                 "WALLET_TRANSFER"}

(***************************************************************************)
(* Text: String.prototype.trim, toLowerCase, replace(/[<>]/g, "").         *)
(***************************************************************************)
Lower(ch) ==
    CASE ch = "A" -> "a" [] ch = "B" -> "b" [] ch = "C" -> "c"
      [] ch = "M" -> "m" [] ch = "E" -> "e" [] ch = "N" -> "n"
      [] ch = "U" -> "u" [] ch = "X" -> "x" [] OTHER -> ch

ToLower(s) == [i \in 1..Len(s) |-> Lower(s[i])]

RECURSIVE TrimLeft(_)
TrimLeft(s) == IF s # << >> /\ Head(s) = " " THEN TrimLeft(Tail(s)) ELSE s

RECURSIVE TrimRight(_)
TrimRight(s) ==
    IF s # << >> /\ s[Len(s)] = " " THEN TrimRight(SubSeq(s, 1, Len(s) - 1)) ELSE s

Trim(s) == TrimRight(TrimLeft(s))

sanitizeInput(input) == SelectSeq(Trim(input), LAMBDA ch : ch \notin {"<", ">"})

\* [^\s@]+
NoSpaceAt(s) == s # << >> /\ \A i \in 1..Len(s) : s[i] \notin {" ", "@"}

\* /^[^\s@]+@[^\s@]+\.[^\s@]+$/
EmailPattern(s) ==
    \E i, j \in 1..Len(s) :
        /\ i < j
        /\ s[i] = "@"
        /\ s[j] = "."
        /\ NoSpaceAt(SubSeq(s, 1, i - 1))
        /\ NoSpaceAt(SubSeq(s, i + 1, j - 1))
        /\ NoSpaceAt(SubSeq(s, j + 1, Len(s)))

(***************************************************************************)
(* Errors: AppError and its subclasses, and what is not an AppError.       *)
(***************************************************************************)
ValidationError(message) ==
    [class |-> "ValidationError", isOperational |-> TRUE, message |-> message]

BackendError(message) ==
    [class |-> "BackendError", isOperational |-> TRUE, message |-> message]

\* an exception of the chat transport or of the store driver: no AppError
PlainError(message) ==
    [class |-> "Error", isOperational |-> FALSE, message |-> message]

NoError == [class |-> "none", isOperational |-> FALSE, message |-> "none"]

GENERIC_APOLOGY == "Sorry, something went wrong"

ValidationMessages ==
    {"reply 1-4", "reply A or B", "reply A", "vip out of stock", "invalid email",
     "reply 1, 2 or 3", "reply A, B or C", "no ticket type", "no ticket price"}

\* the text handleError replies with
ErrorUserMessageGeneric(error) == GENERIC_APOLOGY

ErrorUserMessage(error) ==
    IF error.class # "Error" /\ error.isOperational THEN error.message ELSE GENERIC_APOLOGY

(***************************************************************************)
(* Validators: a result [ok, value, error].                                *)
(***************************************************************************)
Accept(v) == [ok |-> TRUE, value |-> v, error |-> NoError]
Reject(message) == [ok |-> FALSE, value |-> "-", error |-> ValidationError(message)]

validateTicketType(input, vipOutOfStock) ==
    LET normalized == Trim(ToLower(input)) IN
    IF normalized = <<"a">> THEN Accept("GA")
    ELSE IF normalized = <<"b">>
         THEN IF vipOutOfStock THEN Reject("vip out of stock") ELSE Accept("VIP")
         ELSE IF vipOutOfStock THEN Reject("reply A") ELSE Reject("reply A or B")

validateInstallmentPlan(input) ==
    LET normalized == Trim(ToLower(input)) IN
    IF normalized = <<"a">> THEN Accept("A")
    ELSE IF normalized = <<"b">> THEN Accept("B")
    ELSE IF normalized = <<"c">> THEN Accept("C")
    ELSE Reject("reply A, B or C")

validateMenuOption(input) ==
    LET normalized == Trim(input) IN
    IF normalized \in {<<"1">>, <<"2">>, <<"3">>, <<"4">>}
    THEN Accept(normalized[1]) ELSE Reject("reply 1-4")

validateWalletTransfer(input) ==
    LET normalized == Trim(input) IN
    IF normalized \in {<<"1">>, <<"2">>, <<"3">>}
    THEN Accept(normalized[1]) ELSE Reject("reply 1, 2 or 3")

validateEmail(input) ==
    LET trimmed == Trim(input) IN
    IF EmailPattern(trimmed) THEN Accept(ToLower(trimmed)) ELSE Reject("invalid email")


(***************************************************************************)
(* The session document (UserSession) and the store operations on it.      *)
(***************************************************************************)
NoText == "-"
NoNumber == -1
NoEmail == << >>
NoReminders == {"-"}

\* a session object with no key but state set
BareSession(st) ==
    [state |-> st, ticketType |-> NoText, paymentType |-> NoText,
     installmentPlan |-> NoText, email |-> NoEmail, ticketId |-> NoText,
     amountPaid |-> NoNumber, totalPrice |-> NoNumber, remainingBalance |-> NoNumber,
     nextDueDateISO |-> NoNumber, installmentNumber |-> NoNumber,
     totalInstallments |-> NoNumber, walletBalance |-> NoNumber,
     appliedCoupon |-> NoText, originalPrice |-> NoNumber,
     discountedPrice |-> NoNumber, reminders |-> NoReminders]

\* an object that has none of the session's keys (the empty update)
NoKeys == BareSession(NoText)

SessionKeys == DOMAIN NoKeys

Absent(k) == NoKeys[k]

\* { ...base, ...updates }: every key updates has replaces the one of base
Spread(base, updates) ==
    [k \in SessionKeys |-> IF updates[k] = Absent(k) THEN base[k] ELSE updates[k]]

NoUser == [exists |-> FALSE, email |-> NoEmail, session |-> NoKeys]

NewUser(session) == [exists |-> TRUE, email |-> NoEmail, session |-> session]

\* the users collection after getSession: the user is created when missing
getSessionStore(store, chatId) ==
    IF store[chatId].exists THEN store
    ELSE [store EXCEPT ![chatId] = NewUser(BareSession(StateConst("WELCOME")))]

\* the users collection after updateSession(chatId, updates)
updateSession(store, chatId, updates) ==
    IF ~store[chatId].exists
    THEN [store EXCEPT ![chatId] = NewUser(Spread(BareSession(StateConst("WELCOME")), updates))]
    ELSE [store EXCEPT ![chatId].session = Spread(store[chatId].session, updates)]

\* the users collection after resetToMainMenu(chatId)
resetToMainMenu(store, chatId) ==
    IF ~store[chatId].exists
    THEN [store EXCEPT ![chatId] = NewUser(BareSession(StateConst("MAIN_MENU")))]
    ELSE [store EXCEPT ![chatId].session = BareSession(StateConst("MAIN_MENU"))]

\* the Payment document
NoPayment ==
    [exists |-> FALSE, chatId |-> NoText, amount |-> NoNumber, status |-> NoText,
     ticketType |-> NoText, paymentType |-> NoText, paidAt |-> NoNumber]

(***************************************************************************)
(* State.                                                                  *)
(***************************************************************************)
VARIABLES
    users,        \* the users collection: chat id -> user document (with its session)
    payments,     \* the payments collection: reference -> Payment document
    provider,     \* the provider's status of each transaction
    now,          \* the clock, in days
    vipBaseline,  \* VIP_BASELINE_COUNT (-1 is null)
    hm,           \* handleMessage in flight, per chat: the session object it read
    last,         \* what the latest handled message of a chat ended with
    scenario,     \* progress of a chat through "1", "a", an e-mail address, "no"
    handled,      \* chat messages received per chat, counted up to MaxMessages
    transfers,    \* the amounts backend.processWalletTransfer was called with, per chat
    dl,           \* the webhook / callback request of each slot, or its response
    processed,    \* references a completed request marked success and processed
    applied,      \* processPaymentSuccess session updates, per reference
    confirmed,    \* confirmation messages sent, per reference
    raced,        \* per chat: amount confirmed while a handler or sweep held a read
    sweep,        \* the reminder sweep in flight: its snapshot and remaining users
    templates,    \* trigger days of the active payment_due reminder templates
    reminded,     \* reminder messages sent, per chat
    sentFor,      \* reminder messages sent, per chat and reminder key
    userSessions, \* the in-memory session map (storage) the deadline sweep scans
    deadlineRuns, \* runs of checkDeadlines, counted up to MaxDeadlineRuns
    notices,      \* deadline messages sent, per chat
    coupons,      \* the coupons collection: code -> Coupon document
    couponSession,\* the session object of the latest handleCouponCode call, per chat
    vipArchived   \* successful VIP payments recorded before the references of Refs

vars == <<users, payments, provider, now, vipBaseline, hm, last, scenario, handled, transfers,
          dl, processed, applied, confirmed, raced, sweep, templates, reminded, sentFor,
          userSessions, deadlineRuns, notices, coupons, couponSession, vipArchived>>


(***************************************************************************)
(* Initial state.  The store outlives the process: chat c1 is either       *)
(* unknown to it or has a document persisted earlier, of the UserSession   *)
(* shape the installment flow and the deadline rollover leave behind.      *)
(***************************************************************************)
\* an installment purchase in progress, next instalment due on day 2
InstallmentSession ==
    [BareSession("AWAITING_PAYMENT") EXCEPT
        !.ticketType = "VIP", !.paymentType = "installment", !.installmentPlan = "A",
        !.amountPaid = 64700, !.totalPrice = VIP_PRICE, !.remainingBalance = 97050,
        !.nextDueDateISO = 2, !.installmentNumber = 2, !.totalInstallments = 3]

\* a purchase rolled over into the wallet after the deadline
RolledOverSession ==
    [BareSession("WALLET_TRANSFER") EXCEPT
        !.ticketType = "GA", !.paymentType = "installment", !.installmentPlan = "B",
        !.amountPaid = 45938, !.totalPrice = GA_PRICE, !.remainingBalance = 45937,
        !.nextDueDateISO = 0, !.installmentNumber = 2, !.totalInstallments = 2,
        !.walletBalance = 45938, !.reminders = {"fiveDaySent"}]

\* a session left in the plan-selection state of the installment flow
PlanSelectionSession ==
    [BareSession("SELECT_INSTALLMENT_PLAN") EXCEPT
        !.ticketType = "GA", !.totalPrice = GA_PRICE]

\* a VIP purchase with two of three instalments paid, the last due on day 2
SecondInstallmentSession ==
    [BareSession("AWAITING_PAYMENT") EXCEPT
        !.ticketType = "VIP", !.paymentType = "installment", !.installmentPlan = "A",
        !.amountPaid = 113225, !.totalPrice = VIP_PRICE, !.remainingBalance = 48525,
        !.nextDueDateISO = 2, !.installmentNumber = 3, !.totalInstallments = 3]

\* a purchase paid in full whose ticket was issued
TicketedSession ==
    [BareSession("MAIN_MENU") EXCEPT
        !.ticketType = "GA", !.paymentType = "full", !.ticketId = "T1",
        !.amountPaid = GA_PRICE, !.totalPrice = GA_PRICE, !.remainingBalance = 0]

\* purchases at the coupon question and at the question whether to go on
\* without a coupon, as the SessionState type names these states
CouponAnswerSession ==
    [BareSession("AWAITING_COUPON_ANSWER") EXCEPT
        !.ticketType = "GA", !.paymentType = "full", !.totalPrice = GA_PRICE,
        !.email = <<"x", "@", "y", ".", "z">>]

ContinueAnswerSession ==
    [BareSession("AWAITING_CONTINUE_ANSWER") EXCEPT
        !.ticketType = "GA", !.paymentType = "full", !.totalPrice = GA_PRICE,
        !.email = <<"x", "@", "y", ".", "z">>]

CouponSeeds == {CouponAnswerSession, ContinueAnswerSession}

\* purchases asked for their coupon code
CouponCodeSession(ticketType) ==
    [BareSession("AWAITING_COUPON_CODE") EXCEPT
        !.ticketType = ticketType, !.paymentType = "full",
        !.totalPrice = IF ticketType = "GA" THEN GA_PRICE ELSE VIP_PRICE,
        !.email = <<"x", "@", "y", ".", "z">>]

\* a session as the earlier handleTicketSelection left it, the payment type
\* not yet chosen
PaymentTypeSession ==
    [BareSession("SELECT_PAYMENT_TYPE") EXCEPT
        !.ticketType = "GA", !.totalPrice = GA_PRICE]

\* a session after option 1 of the main menu: the ticket types were shown
TicketSelectionSession == BareSession("SELECT_TICKET")

\* the states of the earlier design
LegacyStates == {"SELECT_PAYMENT_TYPE", "SELECT_INSTALLMENT_PLAN"}

LegacySeeds == {PlanSelectionSession, PaymentTypeSession}

\* the sum of the first k instalments of a plan
RECURSIVE PaidAfter(_, _, _)
PaidAfter(ticketType, plan, k) ==
    IF k = 0 THEN 0
    ELSE INSTALLMENT_PLANS[ticketType][plan][k] + PaidAfter(ticketType, plan, k - 1)

\* an installment purchase with k instalments paid and the next one due on day 2
PendingSession(ticketType, plan, k) ==
    [BareSession("AWAITING_PAYMENT") EXCEPT
        !.ticketType = ticketType, !.paymentType = "installment",
        !.installmentPlan = plan,
        !.amountPaid = PaidAfter(ticketType, plan, k),
        !.totalPrice = TICKETS[ticketType].price,
        !.remainingBalance = TICKETS[ticketType].price - PaidAfter(ticketType, plan, k),
        !.nextDueDateISO = 2, !.installmentNumber = k + 1,
        !.totalInstallments = Len(INSTALLMENT_PLANS[ticketType][plan])]

\* a VIP purchase with the GA price, or a pesewa less, paid
BoundarySessions ==
    {[PendingSession("VIP", "A", 1) EXCEPT
         !.amountPaid = amountPaid, !.remainingBalance = VIP_PRICE - amountPaid] :
        amountPaid \in {GA_PRICE - 1, GA_PRICE}}

\* the sessions an entry of the session map is given to the deadline sweep
\* with: every installment purchase with a part paid, the two around the GA
\* price, a session rolled over before, one with its ticket issued, one with
\* nothing paid
DeadlineInputs ==
    {PendingSession(x[1], x[2], x[3]) :
        x \in {y \in {"GA", "VIP"} \X {"A", "B"} \X (1..2) :
                  y[3] < Len(INSTALLMENT_PLANS[y[1]][y[2]])}}
    \cup BoundarySessions
    \cup {RolledOverSession, TicketedSession, PlanSelectionSession}

SeedSessions == {InstallmentSession, RolledOverSession, PlanSelectionSession,
                 SecondInstallmentSession, TicketedSession}

\* the provider's side of a transaction: none, open (unpaid), success, failed
NoTransaction == [status |-> "none", paidAt |-> NoNumber]

NoHandler == [pc |-> "idle", session |-> NoKeys, created |-> FALSE]

NoResult == [route |-> "none", outcome |-> "none", reply |-> "none", delivered |-> FALSE,
             logged |-> FALSE]

\* a request slot: idle, in flight (verify, find, save, process) for a reference,
\* or done with a response code; authentic: the response is to a request that
\* carried the provider's signature; late: the reference had been processed
\* when the request came
NoRequest == [pc |-> "idle", ref |-> 0, late |-> FALSE, authentic |-> FALSE, code |-> 0]

NoRace == [handler |-> NoNumber, sweep |-> NoNumber]

\* the sweep: idle, or at the head of todo in its template or its fallback part
NoSweep == [pc |-> "idle", snapshot |-> [c \in Chats |-> NoUser], todo |-> << >>]

\* the keys of session.reminders
ReminderKeys == {"1DaySent", "2DaySent", "fiveDaySent", "oneDaySent"}

\* userSessions.get(chatId) of a chat the map has no entry for
NoEntry == [has |-> FALSE, session |-> NoKeys]

\* the codes coupons are stored under, and a code no document has
CouponCodes == {"SAVE"}
NoCoupon == [exists |-> FALSE, discountType |-> NoText, discountValue |-> NoNumber,
             isActive |-> FALSE, usageCount |-> 0, maxUsage |-> NoNumber,
             expiryDate |-> NoNumber]

\* the process starts: the stored documents are there, the module state is fresh
\* everything but the users collection at process start
BootButMap ==
    /\ payments = [r \in Refs |-> NoPayment]
    /\ provider = [r \in Refs |-> NoTransaction]
    /\ now = 0
    /\ hm = [c \in Chats |-> NoHandler]
    /\ last = [c \in Chats |-> NoResult]
    /\ scenario = [c \in Chats |-> 0]
    /\ handled = [c \in Chats |-> 0]
    /\ transfers = [c \in Chats |-> << >>]
    /\ dl = [d \in Slots |-> NoRequest]
    /\ processed = [r \in Refs |-> FALSE]
    /\ applied = [r \in Refs |-> 0]
    /\ confirmed = [r \in Refs |-> 0]
    /\ raced = [c \in Chats |-> NoRace]
    /\ sweep = NoSweep
    /\ templates = {}
    /\ reminded = [c \in Chats |-> 0]
    /\ sentFor = [c \in Chats |-> [k \in ReminderKeys |-> 0]]
    /\ deadlineRuns = 0
    /\ notices = [c \in Chats |-> 0]
    /\ coupons = [code \in CouponCodes |-> NoCoupon]
    /\ couponSession = [c \in Chats |-> NoKeys]

\* the session map is created empty with the module
BootRest ==
    /\ BootButMap
    /\ userSessions = [c \in Chats |-> NoEntry]

Boot ==
    /\ \E stored \in {NoUser} \cup {NewUser(seed) : seed \in SeedSessions} :
          users = [c \in Chats |-> IF c \in Talkers THEN stored ELSE NoUser]
    /\ BootRest

Init ==
    /\ Boot
    /\ vipBaseline = -1
    /\ vipArchived = 0

(***************************************************************************)
(* Chat texts the users send (message.body).                               *)
(***************************************************************************)
Bodies ==
    {<<"m", "e", "n", "u">>, <<" ", "M", "E", "N", "U", " ">>,
     <<"s", "t", "a", "r", "t">>,
     <<"1">>, <<"2">>, <<"3">>, <<"4">>, <<"<", "1", ">">>, <<"9">>,
     <<"a">>, <<"b">>, <<"c">>, <<"v", "i", "p">>,
     <<"X", "@", "y", ".", "z">>, <<"x", "@", "y">>,
     <<"n", "o">>, <<"y", "e", "s">>}

\* what handleMessage is called with and derives: index.ts trims the body
UserMessage(body) == Trim(body)
Msg(body) == ToLower(sanitizeInput(UserMessage(body)))

IsMenuCommand(msg) == msg = <<"m", "e", "n", "u">> \/ msg = <<"s", "t", "a", "r", "t">>

(***************************************************************************)
(* backend.generatePaymentLink: the provider opens a transaction under a   *)
(* fresh reference and a pending Payment record is saved.                  *)
(***************************************************************************)
FreeRefs == {r \in Refs : provider[r].status = "none"}

NextRef == CHOOSE r \in FreeRefs : \A q \in FreeRefs : r <= q

NewPayment(chatId, amount, ticketType, paymentType) ==
    [exists |-> TRUE, chatId |-> chatId, amount |-> amount, status |-> "pending",
     ticketType |-> ticketType, paymentType |-> paymentType, paidAt |-> NoNumber]

\* the link of the provider returned without a Payment record being saved
GeneratePaymentLinkUnrecorded(chatId, amount, ticketType, paymentType, saved) ==
    /\ FreeRefs # {}
    /\ provider' = [provider EXCEPT ![NextRef].status = "open"]
    /\ payments' = payments

\* saved: the record is written; otherwise payment.save() threw after the
\* provider had opened the transaction
GeneratePaymentLink(chatId, amount, ticketType, paymentType, saved) ==
    /\ FreeRefs # {}
    /\ provider' = [provider EXCEPT ![NextRef].status = "open"]
    /\ payments' = IF saved
                   THEN [payments EXCEPT ![NextRef] =
                            NewPayment(chatId, amount, ticketType, paymentType)]
                   ELSE payments

(***************************************************************************)
(* isVIPOutOfStock, with initializeBaseline.                               *)
(***************************************************************************)
VIPSold == vipArchived + Cardinality({r \in Refs : /\ payments[r].exists
                                                   /\ payments[r].ticketType = "VIP"
                                                   /\ payments[r].status = "success"})

\* initFailed, countFailed: countDocuments threw in initializeBaseline, in isVIPOutOfStock
BaselineAfter(initFailed) ==
    IF vipBaseline # -1 THEN vipBaseline ELSE IF initFailed THEN 0 ELSE VIPSold

\* the gate with the allotment itself still on sale
isVIPOutOfStockLate(initFailed, countFailed) ==
    IF countFailed THEN TRUE
    ELSE VIPSold - BaselineAfter(initFailed) > VIP_ADDITIONAL_AVAILABLE

\* the gate with the unpaid VIP payment links counted as sold
isVIPOutOfStockReserving(initFailed, countFailed) ==
    LET pending == Cardinality({r \in Refs : /\ payments[r].exists
                                             /\ payments[r].ticketType = "VIP"
                                             /\ payments[r].status = "pending"})
    IN  IF countFailed THEN TRUE
        ELSE VIPSold + pending - BaselineAfter(initFailed) >= VIP_ADDITIONAL_AVAILABLE

isVIPOutOfStock(initFailed, countFailed) ==
    IF countFailed THEN TRUE
    ELSE VIPSold - BaselineAfter(initFailed) >= VIP_ADDITIONAL_AVAILABLE


(***************************************************************************)
(* handleMessage.  MessageArrives is the dispatch up to the session read;  *)
(* one action per branch follows, each with the write-back of the branch.  *)
(* The text of the message is drawn where it is first used.                *)
(***************************************************************************)
payVars == <<dl, processed, applied, confirmed>>
sweepVars == <<sweep, templates, reminded, sentFor>>
\* the in-memory session map with the deadline sweep, the coupons, earlier sales
restVars == <<userSessions, deadlineRuns, notices, coupons, couponSession, vipArchived>>

\* the walk "1", "a", an e-mail address, "no" from MAIN_MENU, each handled without error
ScenarioAfter(c, body, ok) ==
    LET msg == Msg(body) IN
    IF ~ok THEN 0
    ELSE IF hm[c].session.state = "MAIN_MENU" /\ msg = <<"1">> THEN 1
    ELSE IF scenario[c] = 1 /\ msg = <<"a">> THEN 2
    ELSE IF scenario[c] = 2 /\ validateEmail(UserMessage(body)).ok THEN 3
    ELSE IF scenario[c] = 3 /\ msg = <<"n", "o">> THEN 4
    ELSE 0

\* the handler is past its session read and the message takes this branch
Routed(c, body, route) ==
    /\ hm[c].pc = "read"
    /\ IF route = "menu"
       THEN IsMenuCommand(Msg(body))
       ELSE /\ route = IF hm[c].session.state \in
                            {"WELCOME", "MAIN_MENU", "SELECT_TICKET", "AWAITING_EMAIL",
                             "SELECT_INSTALLMENT_PLAN", "AWAITING_PAYMENT",
                             "WALLET_TRANSFER"}
                       THEN hm[c].session.state
                       ELSE "default"
            /\ ~IsMenuCommand(Msg(body))

\* the branch threw: the catch of handleMessage hands the error to handleError,
\* whose own reply may fail as well
\* handleError without the try around its reply: a failed reply is not logged
ThrownUnlogged(c, body, route, error) ==
    /\ \E delivered \in BOOLEAN :
          last' = [last EXCEPT ![c] =
                      [route |-> route,
                       outcome |-> IF error.class = "ValidationError"
                                   THEN "validation" ELSE "error",
                       reply |-> ErrorUserMessage(error),
                       delivered |-> delivered, logged |-> FALSE]]
    /\ hm' = [hm EXCEPT ![c] = NoHandler]
    /\ scenario' = [scenario EXCEPT ![c] = 0]
    /\ raced' = [raced EXCEPT ![c].handler = NoNumber]
    /\ UNCHANGED handled

\* the catch of handleMessage: handleError replies with the user message, and
\* logs the failure when that reply throws
Thrown(c, body, route, error) ==
    /\ \E delivered \in BOOLEAN :
          last' = [last EXCEPT ![c] =
                      [route |-> route,
                       outcome |-> IF error.class = "ValidationError"
                                   THEN "validation" ELSE "error",
                       reply |-> ErrorUserMessage(error),
                       delivered |-> delivered, logged |-> ~delivered]]
    /\ hm' = [hm EXCEPT ![c] = NoHandler]
    /\ scenario' = [scenario EXCEPT ![c] = 0]
    /\ raced' = [raced EXCEPT ![c].handler = NoNumber]
    /\ UNCHANGED handled

\* the branch returned, its last reply being text
Returned(c, body, route, text) ==
    /\ last' = [last EXCEPT ![c] =
                   [route |-> route, outcome |-> "ok", reply |-> text, delivered |-> TRUE,
                    logged |-> FALSE]]
    /\ hm' = [hm EXCEPT ![c] = NoHandler]
    /\ scenario' = [scenario EXCEPT ![c] = ScenarioAfter(c, body, TRUE)]
    /\ raced' = [raced EXCEPT ![c].handler = NoNumber]
    /\ UNCHANGED handled

SendFailed == PlainError("send failed")
StoreFailed == PlainError("store failed")

MessageArrives(c, storeFails) ==
    /\ hm[c].pc = "idle"
    /\ IF storeFails
       THEN /\ \E delivered \in BOOLEAN :
                  last' = [last EXCEPT ![c] =
                              [route |-> "getSession", outcome |-> "error",
                               reply |-> ErrorUserMessage(StoreFailed),
                               delivered |-> delivered, logged |-> ~delivered]]
            /\ scenario' = [scenario EXCEPT ![c] = 0]
            /\ UNCHANGED <<users, hm>>
       ELSE /\ users' = getSessionStore(users, c)
            /\ hm' = [hm EXCEPT ![c] = [pc |-> "read", session |-> users'[c].session,
                                        created |-> ~users[c].exists]]
            /\ UNCHANGED <<last, scenario>>
    /\ handled' = [handled EXCEPT ![c] = IF @ < MaxMessages THEN @ + 1 ELSE @]
    /\ raced' = [raced EXCEPT ![c].handler = NoNumber]
    /\ UNCHANGED <<payments, provider, now, vipBaseline, transfers, payVars, sweepVars, restVars>>

\* msg === "menu" || msg === "start"
HandleMenuCommand(c, body, fault) ==
    /\ Routed(c, body, "menu")
    /\ CASE fault = "store" -> Thrown(c, body, "menu", StoreFailed) /\ UNCHANGED users
         [] fault = "send" -> /\ users' = resetToMainMenu(users, c)
                              /\ Thrown(c, body, "menu", SendFailed)
         [] OTHER -> /\ users' = resetToMainMenu(users, c)
                     /\ Returned(c, body, "menu", "welcome")
    /\ UNCHANGED <<payments, provider, now, vipBaseline, transfers, payVars, sweepVars, restVars>>

\* the WELCOME branch with the reset of menu/start in place of the state update
HandleWelcomeStateReset(c, body, fault) ==
    /\ Routed(c, body, "WELCOME")
    /\ IF fault # "none"
       THEN Thrown(c, body, "WELCOME", IF fault = "send" THEN SendFailed ELSE StoreFailed)
            /\ UNCHANGED users
       ELSE /\ users' = resetToMainMenu(users, c)
            /\ Returned(c, body, "WELCOME", "welcome")
    /\ UNCHANGED <<payments, provider, now, vipBaseline, transfers, payVars, sweepVars, restVars>>

\* session.state === SESSION_STATES.WELCOME
HandleWelcomeState(c, body, fault) ==
    /\ Routed(c, body, "WELCOME")
    /\ IF fault # "none"
       THEN Thrown(c, body, "WELCOME", IF fault = "send" THEN SendFailed ELSE StoreFailed)
            /\ UNCHANGED users
       ELSE /\ users' = updateSession(users, c,
                            [NoKeys EXCEPT !.state = StateConst("MAIN_MENU")])
            /\ Returned(c, body, "WELCOME", "welcome")
    /\ UNCHANGED <<payments, provider, now, vipBaseline, transfers, payVars, sweepVars, restVars>>

\* the default branch of the switch
HandleUnknownState(c, body, fault) ==
    /\ Routed(c, body, "default")
    /\ IF fault # "none"
       THEN Thrown(c, body, "default", IF fault = "send" THEN SendFailed ELSE StoreFailed)
            /\ UNCHANGED users
       ELSE /\ users' = updateSession(users, c,
                            [NoKeys EXCEPT !.state = StateConst("MAIN_MENU")])
            /\ Returned(c, body, "default", "welcome")
    /\ UNCHANGED <<payments, provider, now, vipBaseline, transfers, payVars, sweepVars, restVars>>

\* case AWAITING_PAYMENT: a static reply, no write-back
HandleAwaitingPayment(c, body, fault) ==
    /\ Routed(c, body, "AWAITING_PAYMENT")
    /\ IF fault = "send"
       THEN Thrown(c, body, "AWAITING_PAYMENT", SendFailed)
       ELSE Returned(c, body, "AWAITING_PAYMENT", "please complete your payment")
    /\ UNCHANGED <<users, payments, provider, now, vipBaseline, transfers, payVars, sweepVars, restVars>>

\* handleCheckPaymentStatus: the reply of menu option 2
StatusReply(session) ==
    IF session.ticketId # NoText THEN "payment completed"
    ELSE IF session.amountPaid > 0 THEN "payment in progress"
    ELSE "no tickets"

\* handleMainMenu with option 3 opening the transfer whatever the balance
MainMenuSessionAnyBalance(session, option) ==
    CASE option = "1" -> [session EXCEPT !.state = StateConst("SELECT_TICKET")]
      [] option = "3" -> [session EXCEPT !.state = StateConst("WALLET_TRANSFER")]
      [] option = "4" -> [session EXCEPT !.state = StateConst("MAIN_MENU")]
      [] OTHER -> session

\* handleMainMenu: the session after a valid option
MainMenuSession(session, option) ==
    CASE option = "1" -> [session EXCEPT !.state = StateConst("SELECT_TICKET")]
      [] option = "3" /\ session.walletBalance > 0 ->
                          [session EXCEPT !.state = StateConst("WALLET_TRANSFER")]
      [] option = "4" -> [session EXCEPT !.state = StateConst("MAIN_MENU")]
      [] OTHER -> session

MainMenuReply(session, option) ==
    CASE option = "1" -> "ticket types"
      [] option = "2" -> StatusReply(session)
      [] option = "3" -> IF session.walletBalance > 0 THEN "wallet balance" ELSE "empty wallet"
      [] OTHER -> "help"

\* case MAIN_MENU: handleMainMenu, then updateSession(chatId, session)
HandleMainMenu(c, body, fault) ==
    /\ Routed(c, body, "MAIN_MENU")
    /\ LET session == hm[c].session
           option == validateMenuOption(Msg(body))
       IN  IF ~option.ok
           THEN Thrown(c, body, "MAIN_MENU", option.error) /\ UNCHANGED users
           ELSE IF fault # "none"
           THEN Thrown(c, body, "MAIN_MENU", IF fault = "send" THEN SendFailed ELSE StoreFailed)
                /\ UNCHANGED users
           ELSE /\ users' = updateSession(users, c, MainMenuSession(session, option.value))
                /\ Returned(c, body, "MAIN_MENU", MainMenuReply(session, option.value))
    /\ UNCHANGED <<payments, provider, now, vipBaseline, transfers, payVars, sweepVars, restVars>>


\* case SELECT_TICKET: handleTicketSelection, then updateSession(chatId, session)
HandleTicketSelection(c, body, initFailed, countFailed, fault) ==
    /\ Routed(c, body, "SELECT_TICKET")
    /\ vipBaseline' = BaselineAfter(initFailed)
    /\ LET session == hm[c].session
           normalized == Trim(ToLower(Msg(body)))
           vipOutOfStock == isVIPOutOfStock(initFailed, countFailed)
           ticketType == validateTicketType(Msg(body), vipOutOfStock)
           thrown == IF fault = "send" THEN SendFailed ELSE StoreFailed
       IN  IF vipOutOfStock /\ normalized \in {<<"b">>, <<"v", "i", "p">>}
           THEN IF fault # "none"
                THEN Thrown(c, body, "SELECT_TICKET", thrown) /\ UNCHANGED users
                ELSE /\ users' = updateSession(users, c, session)
                     /\ Returned(c, body, "SELECT_TICKET", "vip out of stock")
           ELSE IF ~ticketType.ok
           THEN Thrown(c, body, "SELECT_TICKET", ticketType.error) /\ UNCHANGED users
           ELSE IF fault # "none"
           THEN Thrown(c, body, "SELECT_TICKET", thrown) /\ UNCHANGED users
           ELSE /\ users' = updateSession(users, c,
                                [session EXCEPT
                                    !.ticketType = ticketType.value,
                                    !.totalPrice = TICKETS[ticketType.value].price,
                                    !.paymentType = "full",
                                    !.state = StateConst("AWAITING_EMAIL")])
                /\ Returned(c, body, "SELECT_TICKET", "ticket confirmation")
    /\ UNCHANGED <<payments, provider, now, transfers, payVars, sweepVars, restVars>>

\* User.findOneAndUpdate({ chatId }, { $set: { email } })
SetUserEmail(store, chatId, email) ==
    IF store[chatId].exists THEN [store EXCEPT ![chatId].email = email] ELSE store

\* case AWAITING_EMAIL: handleEmailCollection, then updateSession(chatId, session)
\* fault: "find" (findOneAndUpdate threw), "send" (the reply), "store" (the write-back)
HandleEmailCollection(c, body, fault) ==
    /\ Routed(c, body, "AWAITING_EMAIL")
    /\ LET session == hm[c].session
           email == validateEmail(UserMessage(body))
       IN  IF ~email.ok
           THEN Thrown(c, body, "AWAITING_EMAIL", email.error) /\ UNCHANGED users
           ELSE CASE fault = "find" ->
                        Thrown(c, body, "AWAITING_EMAIL", StoreFailed) /\ UNCHANGED users
                  [] fault \in {"send", "store"} ->
                        /\ users' = SetUserEmail(users, c, email.value)
                        /\ Thrown(c, body, "AWAITING_EMAIL",
                                  IF fault = "send" THEN SendFailed ELSE StoreFailed)
                  [] OTHER ->
                        /\ users' = updateSession(SetUserEmail(users, c, email.value), c,
                                        [session EXCEPT
                                            !.email = email.value,
                                            !.state = StateConst("AWAITING_COUPON_ANSWER")])
                        /\ Returned(c, body, "AWAITING_EMAIL", "coupon question")
    /\ UNCHANGED <<payments, provider, now, vipBaseline, transfers, payVars, sweepVars, restVars>>

\* validateSessionForPayment
validateSessionForPayment(session) ==
    IF session.ticketType = NoText THEN Reject("no ticket type")
    ELSE IF session.totalPrice = NoNumber \/ session.totalPrice = 0
    THEN Reject("no ticket price")
    ELSE Accept("-")

\* case SELECT_INSTALLMENT_PLAN: handleInstallmentPlanSelection, then updateSession
\* fault: "init" (the provider refused), "unsaved" (payment.save threw),
\*        "send" (the reply), "store" (the write-back)
HandleInstallmentPlanSelection(c, body, fault) ==
    /\ Routed(c, body, "SELECT_INSTALLMENT_PLAN")
    /\ LET session == hm[c].session
           valid == validateSessionForPayment(session)
           plan == validateInstallmentPlan(Msg(body))
           selectedPlan == INSTALLMENT_PLANS[session.ticketType][plan.value]
           route == "SELECT_INSTALLMENT_PLAN"
           linkFailed == BackendError("Failed to generate payment link")
       IN  IF ~valid.ok
           THEN Thrown(c, body, route, valid.error) /\ UNCHANGED <<users, payments, provider>>
           ELSE IF ~plan.ok
           THEN Thrown(c, body, route, plan.error) /\ UNCHANGED <<users, payments, provider>>
           ELSE IF plan.value = "C"
           THEN /\ IF fault \in {"send", "store"}
                   THEN Thrown(c, body, route,
                               IF fault = "send" THEN SendFailed ELSE StoreFailed)
                        /\ UNCHANGED users
                   ELSE /\ users' = updateSession(users, c,
                                        [session EXCEPT
                                            !.installmentPlan = "C",
                                            !.state = StateConst("MAIN_MENU")])
                        /\ Returned(c, body, route, "custom plan")
                /\ UNCHANGED <<payments, provider>>
           ELSE CASE fault = "init" ->
                        Thrown(c, body, route, linkFailed)
                        /\ UNCHANGED <<users, payments, provider>>
                  [] fault = "unsaved" ->
                        /\ GeneratePaymentLink(c, selectedPlan[1], session.ticketType,
                                               "installment", FALSE)
                        /\ Thrown(c, body, route, linkFailed)
                        /\ UNCHANGED users
                  [] fault \in {"send", "store"} ->
                        /\ GeneratePaymentLink(c, selectedPlan[1], session.ticketType,
                                               "installment", TRUE)
                        /\ Thrown(c, body, route,
                                  IF fault = "send" THEN SendFailed ELSE StoreFailed)
                        /\ UNCHANGED users
                  [] OTHER ->
                        /\ GeneratePaymentLink(c, selectedPlan[1], session.ticketType,
                                               "installment", TRUE)
                        /\ users' = updateSession(users, c,
                                        [session EXCEPT
                                            !.installmentPlan = plan.value,
                                            !.installmentNumber = 1,
                                            !.totalInstallments = Len(selectedPlan),
                                            !.amountPaid = 0,
                                            !.totalPrice = TICKETS[session.ticketType].price,
                                            !.state = StateConst("AWAITING_PAYMENT")])
                        /\ Returned(c, body, route, "installment payment link")
    /\ UNCHANGED <<now, vipBaseline, transfers, payVars, sweepVars, restVars>>

\* case WALLET_TRANSFER: handleWalletTransfer, then updateSession(chatId, session)
HandleWalletTransfer(c, body, fault) ==
    /\ Routed(c, body, "WALLET_TRANSFER")
    /\ LET session == hm[c].session
           option == validateWalletTransfer(Msg(body))
           walletBalance == IF session.walletBalance = NoNumber THEN 0
                            ELSE session.walletBalance
       IN  IF ~option.ok
           THEN Thrown(c, body, "WALLET_TRANSFER", option.error)
                /\ UNCHANGED <<users, transfers>>
           ELSE /\ Len(transfers[c]) < MaxTransfers
                /\ transfers' = [transfers EXCEPT ![c] = Append(@, walletBalance)]
                /\ IF fault # "none"
                   THEN Thrown(c, body, "WALLET_TRANSFER",
                               IF fault = "send" THEN SendFailed ELSE StoreFailed)
                        /\ UNCHANGED users
                   ELSE /\ users' = updateSession(users, c,
                                        [session EXCEPT
                                            !.walletBalance = 0,
                                            !.state = StateConst("MAIN_MENU")])
                        /\ Returned(c, body, "WALLET_TRANSFER", "transfer confirmation")
    /\ UNCHANGED <<payments, provider, now, vipBaseline, payVars, sweepVars, restVars>>

\* the branches of handleMessage after the session read
\* the branch handleMessage takes for a message with this body
HandleBody(c, body) ==
    \/ \E fault \in {"none", "send", "store"} :
          \/ HandleMenuCommand(c, body, fault)
          \/ HandleWelcomeState(c, body, fault)
          \/ HandleUnknownState(c, body, fault)
          \/ HandleAwaitingPayment(c, body, fault)
          \/ HandleMainMenu(c, body, fault)
          \/ HandleWalletTransfer(c, body, fault)
          \/ \E initFailed, countFailed \in BOOLEAN :
                HandleTicketSelection(c, body, initFailed, countFailed, fault)
    \/ \E fault \in {"none", "find", "send", "store"} :
          HandleEmailCollection(c, body, fault)
    \/ \E fault \in {"none", "init", "unsaved", "send", "store"} :
          HandleInstallmentPlanSelection(c, body, fault)

HandleBranch(c) == \E body \in Bodies : HandleBody(c, body)

HandleMessage(c) ==
    \/ \E storeFails \in BOOLEAN : MessageArrives(c, storeFails)
    \/ HandleBranch(c)


(***************************************************************************)
(* The provider and the admin API.                                         *)
(***************************************************************************)
\* the customer pays an open transaction, or it fails
ProviderSettles(r, status) ==
    /\ provider[r].status = "open"
    /\ provider' = [provider EXCEPT ![r] = [status |-> status, paidAt |-> now]]
    /\ UNCHANGED <<users, payments, now, vipBaseline, hm, last, scenario, handled, transfers,
                   raced, payVars, sweepVars, restVars>>

\* generatePaymentLinkForUser: an admin has a link generated for a known user
AdminGeneratesLink(c, ticketType, fault) ==
    /\ users[c].exists
    /\ LET finalTicketType ==
               IF ticketType # NoText THEN ticketType ELSE users[c].session.ticketType
       IN  /\ finalTicketType # NoText
           /\ GeneratePaymentLink(c, TICKETS[finalTicketType].price,
                                  finalTicketType, "full", fault # "unsaved")
    /\ UNCHANGED <<users, now, vipBaseline, hm, last, scenario, handled, transfers, raced,
                   payVars, sweepVars, restVars>>

ClockTicks ==
    /\ now < MaxDay
    /\ now' = now + 1
    /\ UNCHANGED <<users, payments, provider, vipBaseline, hm, last, scenario, handled, transfers,
                   raced, payVars, sweepVars, restVars>>

(***************************************************************************)
(* The payment processor: handlePaystackWebhook, handlePaymentCallback and *)
(* processPaymentSuccess.  A request advances one store or provider call   *)
(* at a time, so that requests interleave as the awaits of the code allow. *)
(***************************************************************************)
PAYSTACK_SECRET == "sk"

\* a digest of the body alone, the same under every key
HmacUnkeyed(key, rawBody) == <<"sha512", rawBody>>

\* crypto.createHmac("sha512", key).update(rawBody).digest("hex")
Hmac(key, rawBody) == <<"hmac-sha512", key, rawBody>>

\* the webhook events of the provider, and who may have signed a request
Events == {"charge.success", "charge.failed"}
Signers == {PAYSTACK_SECRET, "guess"}

\* a request of a slot ends with this response
Responds(d, authentic, code) ==
    dl' = [dl EXCEPT ![d] = [pc |-> "done", ref |-> 0, late |-> dl[d].late,
                             authentic |-> authentic, code |-> code]]

Advances(d, pc) == dl' = [dl EXCEPT ![d].pc = pc]

\* a slot takes a new request when it is idle or has answered the previous one
Free(d) == dl[d].pc \in {"idle", "done"}

Accepts(d, r) ==
    dl' = [dl EXCEPT ![d] = [pc |-> "verify", ref |-> r, late |-> processed[r],
                             authentic |-> FALSE, code |-> 0]]

\* a request answered before any lookup
Refuses(d, r, authentic, code) ==
    dl' = [dl EXCEPT ![d] = [pc |-> "done", ref |-> 0, late |-> FALSE,
                             authentic |-> authentic, code |-> code]]

\* what paystackService.verifyPayment reports as the status of a transaction
VerifiedStatus(r) ==
    IF provider[r].status = "open" THEN "abandoned" ELSE provider[r].status

\* payment && payment.status === "pending"
IsUnprocessedAny(payment) == payment.exists

IsUnprocessed(payment) == payment.exists /\ payment.status = "pending"

\* payment.status = "success"; payment.paidAt = new Date(verification.paidAt)
MarkSuccess(payment, r) ==
    [payment EXCEPT !.status = "success", !.paidAt = provider[r].paidAt]

\* handlePaystackWebhook up to the event type
WebhookReceives(d, r, event, signer) ==
    /\ d \in WebhookSlots
    /\ Free(d)
    /\ provider[r].status # "none"
    /\ signer = PAYSTACK_SECRET /\ event = "charge.success" => provider[r].status = "success"
    /\ LET rawBody == <<event, r>>
           hash == Hmac(PAYSTACK_SECRET, rawBody)
           signature == Hmac(signer, rawBody)
       IN  IF hash # signature
           THEN Refuses(d, r, FALSE, 401)
           ELSE IF event = "charge.success"
           THEN Accepts(d, r)
           ELSE Refuses(d, r, TRUE, 200)
    /\ UNCHANGED <<users, payments, provider, now, vipBaseline, hm, last, scenario,
                   handled, transfers, raced, processed, applied, confirmed, sweepVars, restVars>>

\* handlePaymentCallback up to the reference check
CallbackReceives(d, r, hasReference) ==
    /\ IsCallback(d)
    /\ Free(d)
    /\ provider[r].status # "none"
    /\ IF ~hasReference THEN Refuses(d, r, FALSE, 400) ELSE Accepts(d, r)
    /\ UNCHANGED <<users, payments, provider, now, vipBaseline, hm, last, scenario,
                   handled, transfers, raced, processed, applied, confirmed, sweepVars, restVars>>

\* const verification = await paystackService.verifyPayment(reference)
RequestVerifies(d, throws) ==
    /\ dl[d].pc = "verify"
    /\ IF throws
       THEN Responds(d, ~IsCallback(d), 500)
       ELSE IF VerifiedStatus(dl[d].ref) = "success"
       THEN Advances(d, "find")
       ELSE Responds(d, ~IsCallback(d), IF IsCallback(d) THEN 400 ELSE 200)
    /\ UNCHANGED <<users, payments, provider, now, vipBaseline, hm, last, scenario,
                   handled, transfers, raced, processed, applied, confirmed, sweepVars, restVars>>

\* const payment = await Payment.findOne({ paystackReference: reference })
RequestFinds(d, throws) ==
    /\ dl[d].pc = "find"
    /\ IF throws
       THEN Responds(d, ~IsCallback(d), 500)
       ELSE IF IsUnprocessed(payments[dl[d].ref])
       THEN Advances(d, "save")
       ELSE Responds(d, ~IsCallback(d), 200)
    /\ UNCHANGED <<users, payments, provider, now, vipBaseline, hm, last, scenario,
                   handled, transfers, raced, processed, applied, confirmed, sweepVars, restVars>>

\* payment.status = "success"; ...; await payment.save()
RequestSaves(d, throws) ==
    /\ dl[d].pc = "save"
    /\ IF throws
       THEN Responds(d, ~IsCallback(d), 500) /\ UNCHANGED payments
       ELSE /\ payments' = [payments EXCEPT ![dl[d].ref] = MarkSuccess(@, dl[d].ref)]
            /\ Advances(d, "process")
    /\ UNCHANGED <<users, provider, now, vipBaseline, hm, last, scenario,
                   handled, transfers, raced, processed, applied, confirmed, sweepVars, restVars>>

\* metadata.ticketType || session.ticketType
PaidTicketType(payment, session) ==
    IF payment.ticketType # NoText THEN payment.ticketType ELSE session.ticketType

\* the updates with the amount written to the balance as well
PaymentSuccessUpdatesOwing(amount) ==
    [NoKeys EXCEPT !.amountPaid = amount, !.remainingBalance = amount,
                   !.state = StateConst("MAIN_MENU")]

\* the updates processPaymentSuccess passes to updateSession
PaymentSuccessUpdates(amount) ==
    [NoKeys EXCEPT !.amountPaid = amount, !.remainingBalance = 0,
                   !.state = StateConst("MAIN_MENU")]

\* a handler or a sweep holds a session of the chat it read before this write
RacedAfter(c, amount) ==
    [raced EXCEPT ![c] = [handler |-> IF hm[c].pc = "read" THEN amount ELSE NoNumber,
                          sweep |-> IF \E i \in 1..Len(sweep.todo) : sweep.todo[i] = c
                                    THEN amount ELSE NoNumber]]

\* await processPaymentSuccess(...), then the response
\* fault: "store" (a store call threw, caught inside), "send" (the message was not sent)
RequestProcesses(d, fault) ==
    /\ dl[d].pc = "process"
    /\ LET r == dl[d].ref
           payment == payments[r]
           chatId == payment.chatId
           ticketType == PaidTicketType(payment, users[chatId].session)
       IN  IF fault = "store" \/ ~users[chatId].exists \/ ticketType \notin {"GA", "VIP"}
           THEN UNCHANGED <<users, applied, confirmed, raced>>
           ELSE /\ users' = updateSession(users, chatId, PaymentSuccessUpdates(payment.amount))
                /\ applied' = [applied EXCEPT ![r] = @ + 1]
                /\ raced' = RacedAfter(chatId, payment.amount)
                /\ confirmed' = IF fault = "send" THEN confirmed
                                ELSE [confirmed EXCEPT ![r] = @ + 1]
    /\ processed' = [processed EXCEPT ![dl[d].ref] = TRUE]
    /\ Responds(d, ~IsCallback(d), 200)
    /\ UNCHANGED <<payments, provider, now, vipBaseline, hm, last, scenario,
                   handled, transfers, sweepVars, restVars>>

\* backend.verifyPayment(reference)
BackendVerifyPayment(r, throws) ==
    /\ provider[r].status # "none"
    /\ IF throws \/ ~payments[r].exists
       THEN UNCHANGED payments
       ELSE payments' = [payments EXCEPT ![r] =
                [@ EXCEPT !.status = IF VerifiedStatus(r) = "success"
                                     THEN "success" ELSE "failed",
                          !.paidAt = IF provider[r].paidAt # NoNumber
                                     THEN provider[r].paidAt ELSE @]]
    /\ UNCHANGED <<users, provider, now, vipBaseline, hm, last, scenario, handled, transfers,
                   raced, payVars, sweepVars, restVars>>

PaymentProcessor ==
    \/ \E d \in Slots, r \in Refs :
          \/ \E event \in Events, signer \in Signers : WebhookReceives(d, r, event, signer)
          \/ \E hasReference \in BOOLEAN : CallbackReceives(d, r, hasReference)
    \/ \E d \in Slots, throws \in BOOLEAN :
          \/ RequestVerifies(d, throws)
          \/ RequestFinds(d, throws)
          \/ RequestSaves(d, throws)
    \/ \E d \in Slots, fault \in {"none", "store", "send"} : RequestProcesses(d, fault)
    \/ \E r \in Refs, throws \in BOOLEAN : BackendVerifyPayment(r, throws)

(***************************************************************************)
(* checkReminders: User.find({}) once, then one user after the other; a    *)
(* reminder that was sent is marked on the session object read at the      *)
(* start and the whole object is saved.                                    *)
(***************************************************************************)
ChatOrder == <<"c1", "c2">>

\* the documents User.find({}) returns
UserList(store) == SelectSeq(ChatOrder, LAMBDA c : store[c].exists)

\* trigger days an admin may give a payment_due template
TriggerDays == {2}

\* `${template.triggerDays}DaySent`
ReminderKey(triggerDays) ==
    CASE triggerDays = 1 -> "1DaySent"
      [] triggerDays = 2 -> "2DaySent"
      [] OTHER -> "nDaySent"

daysUntil(dateISO) == dateISO - now

\* no pending payment, or a ticket already
SkipsReminder(session) ==
    \/ session.nextDueDateISO = NoNumber
    \/ session.ticketId # NoText
    \/ session.remainingBalance = NoNumber
    \/ session.remainingBalance <= 0

\* the active templates that match the days left, sent before or not
DueTemplatesAny(session) ==
    {t \in templates : daysUntil(session.nextDueDateISO) = t}

\* the active templates that match the days left and were not sent yet
DueTemplates(session) ==
    {t \in templates : /\ daysUntil(session.nextDueDateISO) = t
                       /\ ReminderKey(t) \notin session.reminders}

\* the hardcoded reminder that applies, or NoText
DueFallback(session) ==
    LET daysLeft == daysUntil(session.nextDueDateISO) IN
    IF daysLeft <= 5 /\ daysLeft > 1 /\ "fiveDaySent" \notin session.reminders
    THEN "fiveDaySent"
    ELSE IF daysLeft = 1 /\ "oneDaySent" \notin session.reminders
    THEN "oneDaySent"
    ELSE NoText

MarkSent(session, key) ==
    [session EXCEPT !.reminders = (@ \ NoReminders) \cup {key}]

\* the faults that leave the reminder message unsent
Unsent == {"link", "send", "logs"}

\* one reminder: payment link, message, log, mark, save
\* fault: "link" (no link), "send" (the message), "log" (ReminderLog.create of
\* the sent reminder), "store" (the save), "logs" (the message, and then the
\* ReminderLog.create of the failure as well)
SendsReminder(c, session, key, fault) ==
    /\ IF fault = "link"
       THEN UNCHANGED <<payments, provider>>
       ELSE GeneratePaymentLink(c, session.remainingBalance, session.ticketType,
                                "installment", TRUE)
    /\ reminded' = IF fault \in Unsent THEN reminded
                   ELSE [reminded EXCEPT ![c] = @ + 1]
    /\ sentFor' = IF fault \in Unsent THEN sentFor
                  ELSE [sentFor EXCEPT ![c][key] = @ + 1]
    /\ users' = IF fault = "none"
                THEN [users EXCEPT ![c].session = MarkSent(session, key)]
                ELSE users
    /\ fault \notin Unsent => reminded[c] < MaxReminders

SweepMovesOn ==
    [pc |-> IF Len(sweep.todo) > 1 THEN "templates" ELSE "idle",
     snapshot |-> sweep.snapshot, todo |-> Tail(sweep.todo)]

\* const users = await User.find({})
ReminderSweepStarts ==
    /\ sweep.pc = "idle"
    /\ UserList(users) # << >>
    /\ sweep' = [pc |-> "templates", snapshot |-> users, todo |-> UserList(users)]
    /\ UNCHANGED <<users, payments, provider, now, vipBaseline, hm, last, scenario,
                   handled, transfers, raced, payVars, templates, reminded, sentFor,
                   restVars>>

\* the skip test and the template loop for the next user
SweepTemplates(fault) ==
    /\ sweep.pc = "templates"
    /\ LET c == Head(sweep.todo)
           session == sweep.snapshot[c].session
       IN  IF SkipsReminder(session)
           THEN /\ sweep' = SweepMovesOn
                /\ raced' = [raced EXCEPT ![c].sweep = NoNumber]
                /\ UNCHANGED <<users, payments, provider, reminded, sentFor>>
           ELSE IF DueTemplates(session) = {}
           THEN /\ sweep' = [sweep EXCEPT !.pc = "fallback"]
                /\ UNCHANGED <<users, payments, provider, reminded, sentFor, raced>>
           ELSE LET key == ReminderKey(CHOOSE t \in DueTemplates(session) : TRUE) IN
                /\ SendsReminder(c, session, key, fault)
                /\ IF fault \in {"none", "logs"}
                   THEN /\ sweep' = SweepMovesOn
                        /\ raced' = [raced EXCEPT ![c].sweep = NoNumber]
                   ELSE /\ sweep' = [sweep EXCEPT
                               !.pc = "fallback",
                               !.snapshot[c].session =
                                   IF fault = "store" THEN MarkSent(session, key) ELSE @]
                        /\ UNCHANGED raced
    /\ UNCHANGED <<now, vipBaseline, hm, last, scenario, handled, transfers, payVars,
                   templates, restVars>>

\* the hardcoded reminders without the try around them: a failure ends the run
SweepFallbackUncaught(fault) ==
    /\ sweep.pc = "fallback"
    /\ LET c == Head(sweep.todo)
           session == sweep.snapshot[c].session
           key == DueFallback(session)
       IN  /\ IF key = NoText
              THEN UNCHANGED <<users, payments, provider, reminded, sentFor>>
              ELSE SendsReminder(c, session, key, fault)
           /\ raced' = [raced EXCEPT ![c].sweep = NoNumber]
           /\ sweep' = IF key # NoText /\ fault # "none"
                       THEN [pc |-> "idle", snapshot |-> sweep.snapshot, todo |-> << >>]
                       ELSE SweepMovesOn
    /\ UNCHANGED <<now, vipBaseline, hm, last, scenario, handled, transfers, payVars,
                   templates, restVars>>

\* the hardcoded reminders, when no template sent one
SweepFallback(fault) ==
    /\ sweep.pc = "fallback"
    /\ LET c == Head(sweep.todo)
           session == sweep.snapshot[c].session
           key == DueFallback(session)
       IN  /\ IF key = NoText
              THEN UNCHANGED <<users, payments, provider, reminded, sentFor>>
              ELSE SendsReminder(c, session, key, fault)
           /\ raced' = [raced EXCEPT ![c].sweep = NoNumber]
    /\ sweep' = SweepMovesOn
    /\ UNCHANGED <<now, vipBaseline, hm, last, scenario, handled, transfers, payVars,
                   templates, restVars>>

\* createTemplate / updateTemplate / deleteTemplate of the admin API
AdminSetsTemplate(triggerDays) ==
    /\ templates' = IF triggerDays \in templates THEN templates \ {triggerDays}
                    ELSE templates \cup {triggerDays}
    /\ UNCHANGED <<users, payments, provider, now, vipBaseline, hm, last, scenario,
                   handled, transfers, raced, payVars, sweep, reminded, sentFor, restVars>>

ReminderSweep ==
    \/ ReminderSweepStarts
    \/ \E fault \in {"none", "link", "send", "log", "logs", "store"} : SweepTemplates(fault)
    \/ \E fault \in {"none", "link", "send", "log", "store"} : SweepFallback(fault)

(***************************************************************************)
(* checkDeadlines: after the cutoff it walks the entries of the in-memory   *)
(* session map (storage.getAll()).  The map is created empty with the       *)
(* process and checkDeadlines is its only writer; the sessions the handlers *)
(* and the payment processor keep are those of the users collection.        *)
(***************************************************************************)
\* EVENT_CONFIG.installmentDeadline, as a day of the clock
installmentDeadline == 0

calculateEligibleTier(originalTier, amountPaid) ==
    IF originalTier = "VIP" /\ amountPaid >= TICKETS["GA"].price THEN "GA"
    ELSE IF originalTier = "GA" /\ amountPaid >= TICKETS["GA"].price THEN "GA"
    ELSE NoText

\* the entry is skipped, or has nothing pending
DeadlinePasses(session) ==
    \/ session.ticketId # NoText
    \/ session.walletBalance # NoNumber
    \/ ~(session.amountPaid > 0 /\ session.remainingBalance > 0)

\* the amount paid less the price of the ticket that was bought
WalletAmountOfOriginal(session) ==
    session.amountPaid - TICKETS[session.ticketType].price

\* the amount credited to the wallet
WalletAmount(session) ==
    LET eligibleTier == calculateEligibleTier(session.ticketType, session.amountPaid) IN
    IF eligibleTier # NoText THEN session.amountPaid - TICKETS[eligibleTier].price
    ELSE session.amountPaid

\* the message of an entry goes out: its ticket type is known and the send works
DeadlineNotified(entry, sendFails) ==
    entry.has /\ ~DeadlinePasses(entry.session) /\ entry.session.ticketType # NoText
    /\ ~sendFails

\* an entry of the map after the sweep: the balance is assigned on the object
\* of the map before the message is sent, the state after it
DeadlineEntry(entry, sendFails) ==
    IF ~entry.has \/ DeadlinePasses(entry.session) THEN entry
    ELSE [entry EXCEPT
             !.session.walletBalance = WalletAmount(entry.session),
             !.session.state = IF DeadlineNotified(entry, sendFails)
                               THEN StateConst("WALLET_TRANSFER") ELSE @]

\* a sweep without the cutoff that walks the sessions of the users collection
CheckDeadlinesStored(sendFails) ==
    LET entry(c) == [has |-> users[c].exists, session |-> users[c].session] IN
    /\ deadlineRuns < MaxDeadlineRuns
    /\ deadlineRuns' = deadlineRuns + 1
    /\ users' = [c \in Chats |->
                    [users[c] EXCEPT !.session = DeadlineEntry(entry(c), sendFails).session]]
    /\ notices' = [c \in Chats |->
                      IF DeadlineNotified(entry(c), sendFails)
                      THEN notices[c] + 1 ELSE notices[c]]
    /\ UNCHANGED <<userSessions, payments, provider, now, vipBaseline, hm, last, scenario,
                   handled, transfers, raced, payVars, sweepVars, coupons, couponSession,
                   vipArchived>>

\* one run of checkDeadlines; sendFails: client.sendMessage throws
CheckDeadlines(sendFails) ==
    /\ deadlineRuns < MaxDeadlineRuns
    /\ deadlineRuns' = deadlineRuns + 1
    /\ IF now <= installmentDeadline
       THEN UNCHANGED <<userSessions, notices>>
       ELSE /\ userSessions' = [c \in Chats |-> DeadlineEntry(userSessions[c], sendFails)]
            /\ notices' = [c \in Chats |->
                               IF DeadlineNotified(userSessions[c], sendFails)
                               THEN notices[c] + 1 ELSE notices[c]]
    /\ UNCHANGED <<users, payments, provider, now, vipBaseline, hm, last, scenario, handled,
                   transfers, raced, payVars, sweepVars, coupons, couponSession, vipArchived>>

DeadlineSweep == \E sendFails \in BOOLEAN : CheckDeadlines(sendFails)

(***************************************************************************)
(* Coupons: createCoupon and deleteCoupon of the admin API, and             *)
(* handleCouponCode with generatePayment.  The discount of a fixed coupon   *)
(* is an amount in pesewas; a percentage discount is cut to whole pesewas.  *)
(***************************************************************************)
DiscountTypes == {"percentage", "fixed"}

\* discount values an admin may give: percentages, and amounts in pesewas
DiscountValues(discountType) ==
    IF discountType = "percentage" THEN {0, 10, 100, 150} ELSE {0, 50000, 200000}

\* what users type when asked for the code
CouponTexts == {"save", "SAVE", "nope"}

\* userMessage.toUpperCase()
UpperCode(text) == IF text = "save" THEN "SAVE" ELSE text

\* createCoupon: z.number().positive() and the unique code
CreateCoupon(code, discountType, discountValue, maxUsage, expiryDate) ==
    /\ coupons' =
           IF discountValue > 0 /\ ~coupons[code].exists
           THEN [coupons EXCEPT ![code] =
                    [exists |-> TRUE, discountType |-> discountType,
                     discountValue |-> discountValue, isActive |-> TRUE,
                     usageCount |-> 0, maxUsage |-> maxUsage, expiryDate |-> expiryDate]]
           ELSE coupons
    /\ UNCHANGED <<users, payments, provider, now, vipBaseline, hm, last, scenario, handled,
                   transfers, raced, payVars, sweepVars, userSessions, deadlineRuns, notices,
                   couponSession, vipArchived>>

\* deleteCoupon
DeleteCoupon(code) ==
    /\ coupons[code].exists
    /\ coupons' = [coupons EXCEPT ![code] = NoCoupon]
    /\ UNCHANGED <<users, payments, provider, now, vipBaseline, hm, last, scenario, handled,
                   transfers, raced, payVars, sweepVars, userSessions, deadlineRuns, notices,
                   couponSession, vipArchived>>

\* Coupon.findOne({ code, isActive: true })
FindActiveCoupon(code) ==
    IF code \in CouponCodes /\ coupons[code].exists /\ coupons[code].isActive
    THEN coupons[code] ELSE NoCoupon

\* the usage and expiry tests
CouponSpent(coupon) ==
    \/ coupon.maxUsage # NoNumber /\ coupon.usageCount >= coupon.maxUsage
    \/ coupon.expiryDate # NoNumber /\ now > coupon.expiryDate

Max(a, b) == IF a >= b THEN a ELSE b

\* the discounted price of handleCouponCode
DiscountedPrice(originalPrice, coupon) ==
    IF coupon.discountType = "percentage"
    THEN (originalPrice * (100 - coupon.discountValue)) \div 100
    ELSE Max(0, originalPrice - coupon.discountValue)

\* the session object after the coupon was applied
CouponApplied(session, code, coupon) ==
    [session EXCEPT
        !.appliedCoupon = code,
        !.originalPrice = TICKETS[session.ticketType].price,
        !.discountedPrice = DiscountedPrice(TICKETS[session.ticketType].price, coupon)]

\* handleCouponCode on the session of a chat, with generatePayment
\* fault: "init" (no payment link), "send" (a reply failed)
HandleCouponCode(c, text, fault) ==
    /\ users[c].exists
    /\ LET session == users[c].session
           code == UpperCode(text)
           coupon == FindActiveCoupon(code)
           applied_ == CouponApplied(session, code, coupon)
       IN  IF ~coupon.exists \/ CouponSpent(coupon)
           THEN /\ couponSession' =
                       [couponSession EXCEPT ![c] =
                           [session EXCEPT !.state = StateConst("AWAITING_CONTINUE_ANSWER")]]
                /\ UNCHANGED <<payments, provider>>
           ELSE /\ session.ticketType # NoText
                /\ IF fault # "none"
                   THEN /\ couponSession' = [couponSession EXCEPT ![c] = applied_]
                        /\ UNCHANGED <<payments, provider>>
                   ELSE /\ GeneratePaymentLink(c, applied_.discountedPrice, session.ticketType,
                                               IF session.paymentType # NoText
                                               THEN session.paymentType ELSE "full", TRUE)
                        /\ couponSession' =
                               [couponSession EXCEPT ![c] =
                                   [applied_ EXCEPT !.state = StateConst("AWAITING_PAYMENT")]]
    /\ UNCHANGED <<users, now, vipBaseline, hm, last, scenario, handled, transfers, raced,
                   payVars, sweepVars, userSessions, deadlineRuns, notices, coupons,
                   vipArchived>>

Coupons ==
    \/ \E code \in CouponCodes, discountType \in DiscountTypes, maxUsage \in {NoNumber, 1},
          expiryDate \in {NoNumber, 0} :
            \E discountValue \in DiscountValues(discountType) :
                CreateCoupon(code, discountType, discountValue, maxUsage, expiryDate)
    \/ \E code \in CouponCodes : DeleteCoupon(code)
    \/ \E c \in Talkers, text \in CouponTexts, fault \in {"none", "init", "send"} :
          HandleCouponCode(c, text, fault)

(***************************************************************************)
(* The specifications: the conversation of a chat alone, the payment       *)
(* requests alone, and a chat message, payment requests and a reminder     *)
(* sweep running side by side.                                             *)
(***************************************************************************)
Settles == \E r \in Refs, status \in {"success", "failed"} : ProviderSettles(r, status)

AdminLinks ==
    \E c \in Talkers, ticketType \in {"GA", "VIP", NoText}, fault \in {"none", "unsaved"} :
        AdminGeneratesLink(c, ticketType, fault)

ChatNext == \E c \in Talkers : HandleMessage(c)

SpecChat == Init /\ [][ChatNext]_vars

\* handleMessage returns: its branch returned or its catch ran
HandleMessageEnds(c) == hm[c].pc = "read" /\ hm' = [hm EXCEPT ![c] = NoHandler]

\* the conversation of a chat whose stored session may be at a coupon question
InitCouponChat ==
    /\ \E stored \in {NoUser} \cup {NewUser(seed) : seed \in SeedSessions \cup CouponSeeds} :
          users = [c \in Chats |-> IF c \in Talkers THEN stored ELSE NoUser]
    /\ BootRest
    /\ vipBaseline = -1
    /\ vipArchived = 0

SpecCouponChat == InitCouponChat /\ [][ChatNext]_vars

\* every await of a handleMessage in flight settles, so its continuation runs
ChatFairness == \A c \in Talkers : WF_hm(HandleMessageEnds(c))

SpecChatLive == SpecChat /\ ChatFairness

PayNext == PaymentProcessor \/ Settles \/ AdminLinks

SpecPay == Init /\ [][PayNext]_vars

\* a chat message, fault-free payment confirmations and a reminder sweep; the
\* message is handled in a state the stored sessions and a confirmation give
RaceNext ==
    \/ \E c \in Talkers : handled[c] < MaxMessages /\ MessageArrives(c, FALSE)
    \/ \E c \in Talkers, body \in Bodies :
          \/ HandleMenuCommand(c, body, "none")
          \/ HandleWelcomeState(c, body, "none")
          \/ HandleAwaitingPayment(c, body, "none")
          \/ HandleMainMenu(c, body, "none")
          \/ HandleInstallmentPlanSelection(c, body, "none")
          \/ HandleWalletTransfer(c, body, "none")
    \/ \E d \in WebhookSlots, r \in Refs :
          WebhookReceives(d, r, "charge.success", PAYSTACK_SECRET)
    \/ \E d \in WebhookSlots :
          \/ RequestVerifies(d, FALSE)
          \/ RequestFinds(d, FALSE)
          \/ RequestSaves(d, FALSE)
          \/ RequestProcesses(d, "none")
    \/ \E r \in Refs : ProviderSettles(r, "success")
    \/ \E c \in Talkers : AdminGeneratesLink(c, NoText, "none")
    \/ \E triggerDays \in TriggerDays : AdminSetsTemplate(triggerDays)
    \/ ReminderSweepStarts
    \/ SweepTemplates("none")
    \/ SweepFallback("none")

SpecRace == Init /\ [][RaceNext]_vars

\* the process some time after its baseline was taken: VIP sales since then are
\* one short of the allotment, the allotment, or one more
InitGate ==
    /\ Boot
    /\ vipBaseline \in {0, 2}
    /\ vipArchived \in {vipBaseline + VIP_ADDITIONAL_AVAILABLE + d : d \in {-1, 0, 1}}

\* the conversation up to the ticket selection, and VIP sales going on beside it
GateNext ==
    \/ \E c \in Talkers : MessageArrives(c, FALSE)
    \/ \E c \in Talkers, body \in Bodies :
          \/ HandleMenuCommand(c, body, "none")
          \/ HandleWelcomeState(c, body, "none")
          \/ HandleMainMenu(c, body, "none")
          \/ HandleTicketSelection(c, body, FALSE, FALSE, "none")
    \/ \E c \in Talkers : AdminGeneratesLink(c, "VIP", "none")
    \/ \E r \in Refs : ProviderSettles(r, "success")
    \/ \E d \in WebhookSlots, r \in Refs :
          WebhookReceives(d, r, "charge.success", PAYSTACK_SECRET)
    \/ \E d \in WebhookSlots :
          \/ RequestVerifies(d, FALSE)
          \/ RequestFinds(d, FALSE)
          \/ RequestSaves(d, FALSE)
          \/ RequestProcesses(d, "none")

SpecGate == InitGate /\ [][GateNext]_vars

\* the coupons an admin keeps and the codes users enter, as the days pass
CouponNext == Coupons \/ ClockTicks

SpecCoupon == Init /\ [][CouponNext]_vars

\* handleCouponCode called for purchases that were asked for their coupon code
InitCouponCode ==
    /\ \E ticketType \in {"GA", "VIP"} :
          users = [c \in Chats |-> IF c \in Talkers
                                     THEN NewUser(CouponCodeSession(ticketType)) ELSE NoUser]
    /\ BootRest
    /\ vipBaseline = -1
    /\ vipArchived = 0

SpecCouponCode == InitCouponCode /\ [][CouponNext]_vars

\* the deadline timer, the days passing, and the chat of a user beside it
DeadlineNext ==
    \/ DeadlineSweep
    \/ ClockTicks
    \/ \E c \in Talkers : MessageArrives(c, FALSE)
    \/ \E c \in Talkers, body \in Bodies :
          \/ HandleMenuCommand(c, body, "none")
          \/ HandleMainMenu(c, body, "none")
          \/ HandleAwaitingPayment(c, body, "none")
          \/ HandleWalletTransfer(c, body, "none")

SpecDeadline == Init /\ [][DeadlineNext]_vars

\* the reminder timer alone: sweep after sweep, with every failure of a send,
\* while the admin switches the template and the days pass
SweepNext ==
    \/ ReminderSweep
    \/ \E triggerDays \in TriggerDays : AdminSetsTemplate(triggerDays)
    \/ ClockTicks

SpecSweep == Init /\ [][SweepNext]_vars

\* the reminder timer with a template on the day threshold of the hardcoded
\* 1-day reminder
ThresholdDays == {1}

ThresholdNext ==
    \/ ReminderSweep
    \/ \E triggerDays \in ThresholdDays : AdminSetsTemplate(triggerDays)
    \/ ClockTicks

SpecThreshold == Init /\ [][ThresholdNext]_vars

\* two users with an instalment due, one after the other in the scan
DueSeeds == {InstallmentSession, SecondInstallmentSession}

InitPair ==
    /\ users \in [Chats -> {NewUser(seed) : seed \in DueSeeds}]
    /\ BootRest
    /\ vipBaseline = -1
    /\ vipArchived = 0

SpecSweepPair == InitPair /\ [][SweepNext]_vars

\* a new chat, or one whose stored session is in a state of the earlier design
InitLegacy ==
    /\ \E stored \in {NoUser} \cup {NewUser(seed) : seed \in LegacySeeds} :
          users = [c \in Chats |-> IF c \in Talkers THEN stored ELSE NoUser]
    /\ BootRest
    /\ vipBaseline = -1
    /\ vipArchived = 0

\* a chat message, an admin-generated payment link, the webhook of a payment,
\* the reminder and the deadline timers and the days passing
LegacyNext ==
    \/ \E c \in Talkers : handled[c] < MaxMessages /\ MessageArrives(c, FALSE)
    \/ \E c \in Talkers, body \in Bodies :
          \/ HandleMenuCommand(c, body, "none")
          \/ HandleWelcomeState(c, body, "none")
          \/ HandleUnknownState(c, body, "none")
          \/ HandleMainMenu(c, body, "none")
          \/ HandleInstallmentPlanSelection(c, body, "none")
    \/ \E c \in Talkers : AdminGeneratesLink(c, NoText, "none")
    \/ \E r \in Refs : ProviderSettles(r, "success")
    \/ \E d \in WebhookSlots, r \in Refs :
          WebhookReceives(d, r, "charge.success", PAYSTACK_SECRET)
    \/ \E d \in WebhookSlots :
          \/ RequestVerifies(d, FALSE)
          \/ RequestFinds(d, FALSE)
          \/ RequestSaves(d, FALSE)
          \/ RequestProcesses(d, "none")
    \/ ReminderSweepStarts
    \/ SweepTemplates("none")
    \/ DeadlineSweep
    \/ ClockTicks

SpecLegacy == InitLegacy /\ [][LegacyNext]_vars

\* every chat is at the ticket selection, and the VIP sales since the baseline
\* are one short of the allotment
InitSoftCap ==
    /\ users = [c \in Chats |-> NewUser(TicketSelectionSession)]
    /\ BootRest
    /\ vipBaseline = 0
    /\ vipArchived = VIP_ADDITIONAL_AVAILABLE - 1

\* the ticket selections of the chats, the payment links an admin generates
\* for them, and the payments with their webhooks
SoftCapNext ==
    \/ \E c \in Chats : handled[c] < MaxMessages /\ MessageArrives(c, FALSE)
    \/ \E c \in Chats, body \in Bodies :
          \/ HandleMenuCommand(c, body, "none")
          \/ HandleTicketSelection(c, body, FALSE, FALSE, "none")
    \/ \E c \in Chats : AdminGeneratesLink(c, NoText, "none")
    \/ \E r \in Refs : ProviderSettles(r, "success")
    \/ \E d \in WebhookSlots, r \in Refs :
          WebhookReceives(d, r, "charge.success", PAYSTACK_SECRET)
    \/ \E d \in WebhookSlots :
          \/ RequestVerifies(d, FALSE)
          \/ RequestFinds(d, FALSE)
          \/ RequestSaves(d, FALSE)
          \/ RequestProcesses(d, "none")

SpecSoftCap == InitSoftCap /\ [][SoftCapNext]_vars

\* everything that hands out a payment link: the installment plan selection of
\* a chat, the reminder sweep and the admin API, with the failures of each
LinkNext ==
    \/ \E c \in Talkers : handled[c] < MaxMessages /\ MessageArrives(c, FALSE)
    \/ \E c \in Talkers, body \in Bodies,
          fault \in {"none", "init", "unsaved", "send", "store"} :
            HandleInstallmentPlanSelection(c, body, fault)
    \/ AdminLinks
    \/ ReminderSweep
    \/ \E triggerDays \in TriggerDays : AdminSetsTemplate(triggerDays)
    \/ ClockTicks

SpecLink == Init /\ [][LinkNext]_vars

\* payment links an admin generates, their payments, and the charge.success
\* webhook of a paid transaction, delivered again and again; the session
\* update of a request may fail or its confirmation may not go out
ReplayNext ==
    \/ \E c \in Talkers : AdminGeneratesLink(c, NoText, "none")
    \/ \E r \in Refs : ProviderSettles(r, "success")
    \/ \E d \in WebhookSlots, r \in Refs :
          WebhookReceives(d, r, "charge.success", PAYSTACK_SECRET)
    \/ \E d \in WebhookSlots :
          \/ RequestVerifies(d, FALSE)
          \/ RequestFinds(d, FALSE)
          \/ RequestSaves(d, FALSE)
          \/ \E fault \in {"none", "store", "send"} : RequestProcesses(d, fault)

\* every call a request awaits settles, and the provider goes on delivering
\* the event of every paid transaction
ReplayFairness ==
    \A d \in WebhookSlots :
        /\ WF_dl(RequestVerifies(d, FALSE))
        /\ WF_dl(RequestFinds(d, FALSE))
        /\ WF_dl(RequestSaves(d, FALSE))
        /\ WF_dl(\E fault \in {"none", "store", "send"} : RequestProcesses(d, fault))
        /\ \A r \in Refs :
              SF_dl(WebhookReceives(d, r, "charge.success", PAYSTACK_SECRET))

SpecReplay == Init /\ [][ReplayNext]_vars /\ ReplayFairness

\* every behaviour of the specifications above is a behaviour of Spec
\* checkDeadlines applied to a session map with entries: the loop body of the
\* sweep on every session it can be handed, with the send working or failing,
\* beside the chat of a user whose session is in the users collection
InitDeadlineMap ==
    /\ \E stored \in {NoUser} \cup {NewUser(seed) : seed \in SeedSessions} :
          users = [c \in Chats |-> IF c \in Talkers THEN stored ELSE NoUser]
    /\ BootButMap
    /\ userSessions \in [Chats -> {NoEntry}
                                  \cup {[has |-> TRUE, session |-> session] :
                                           session \in DeadlineInputs}]
    /\ vipBaseline = -1
    /\ vipArchived = 0

SpecDeadlineMap == InitDeadlineMap /\ [][DeadlineNext]_vars

Next ==
    \/ \E c \in Talkers : HandleMessage(c)
    \/ PaymentProcessor
    \/ Settles
    \/ AdminLinks
    \/ ReminderSweep
    \/ \E triggerDays \in TriggerDays : AdminSetsTemplate(triggerDays)
    \/ Coupons
    \/ DeadlineSweep
    \/ ClockTicks

Spec == Init /\ [][Next]_vars


(***************************************************************************)
(* The properties.                                                         *)
(***************************************************************************)
\* the requests in flight
InFlight(d) == dl[d].pc \in {"verify", "find", "save", "process"}

\* C1: once a reference has been fully processed, a further delivery of its
\* charge.success webhook changes nothing: no step of the replayed request
\* modifies the Payment record, writes the session, or sends a confirmation.
C1_ReplayIsNoOp ==
    [][\A d \in WebhookSlots :
          InFlight(d) /\ dl[d].late /\ dl'[d] # dl[d]
              => UNCHANGED <<payments, users, applied, confirmed>>]_vars

\* a replayed charge.success went through the lookup and was acknowledged
C1_ReplayAnswered ==
    \E d \in WebhookSlots : dl[d].pc = "done" /\ dl[d].late /\ dl[d].code = 200

\* C2: whatever the interleaving of the webhook and the callback requests of
\* one reference, its session update and its confirmation message happen at
\* most once.
C2_ProcessedOnce == \A r \in Refs : applied[r] <= 1 /\ confirmed[r] <= 1

\* the fields a payment confirmation wrote are those of the stored session
ConfirmationKept(session, amount) ==
    session.amountPaid = amount /\ session.remainingBalance = 0

\* C3: when a payment confirmation wrote the session of a chat after a message
\* handler or a reminder sweep had read it, the amount paid and the cleared
\* balance are still in the stored session once that handler or sweep is done
\* with the chat.
C3_ConfirmationSurvives ==
    [][\A c \in Chats :
          /\ (raced[c].handler # NoNumber /\ hm[c].pc = "read" /\ hm'[c].pc = "idle")
                 => ConfirmationKept(users'[c].session, raced[c].handler)
          /\ (raced[c].sweep # NoNumber /\ sweep.todo # << >> /\ sweep'.todo # sweep.todo)
                 => ConfirmationKept(users'[c].session, raced[c].sweep)]_vars

\* C4: the state of every persisted session is one of the enumerated states.
C4_StateEnumerated ==
    \A c \in Chats : users[c].exists => users[c].session.state \in SessionState

\* the ticket, payment and coupon fields are absent
PurchaseCleared(session) ==
    /\ session.ticketType = NoText
    /\ session.paymentType = NoText
    /\ session.installmentPlan = NoText
    /\ session.amountPaid = NoNumber
    /\ session.totalPrice = NoNumber
    /\ session.remainingBalance = NoNumber
    /\ session.appliedCoupon = NoText

\* C5: a handled "menu" or "start" leaves the session in MAIN_MENU with the
\* ticket, payment and coupon fields cleared and the wallet balance as it was.
C5_MenuKeepsWallet ==
    [][\A c \in Chats :
          hm[c].pc = "read" /\ last'[c].route = "menu" /\ last'[c].outcome = "ok"
              => /\ users'[c].session.state = "MAIN_MENU"
                 /\ PurchaseCleared(users'[c].session)
                 /\ users'[c].session.walletBalance = users[c].session.walletBalance]_vars

\* C6: after "1", "a", a valid e-mail address and "no", sent from MAIN_MENU and
\* each handled, the session is in AWAITING_PAYMENT and a pending Payment of
\* the GA price exists for the chat.
C6_ScenarioReachesPayment ==
    \A c \in Chats :
        scenario[c] = 4
            => /\ users[c].session.state = "AWAITING_PAYMENT"
               /\ \E r \in Refs : /\ payments[r].exists
                                  /\ payments[r].chatId = c
                                  /\ payments[r].status = "pending"
                                  /\ payments[r].amount = GA_PRICE

\* C7: every response of the webhook handler to an authentic event is 200.
C7_WebhookAcks ==
    \A d \in WebhookSlots : dl[d].pc = "done" /\ dl[d].authentic => dl[d].code = 200

\* C8: a Payment record in status success or failed keeps its status and paidAt.
C8_StatusChangesOnce ==
    [][\A r \in Refs :
          payments[r].exists /\ payments[r].status \in {"success", "failed"}
              => /\ payments'[r].status = payments[r].status
                 /\ payments'[r].paidAt = payments[r].paidAt]_vars

\* C9: when a branch of handleMessage ends with a ValidationError, the text
\* replied is the message of the rejection and the stored session is the one
\* the chat had when the message arrived.
C9_ValidationKeepsSession ==
    [][\A c \in Chats :
          hm[c].pc = "read" /\ hm'[c].pc = "idle" /\ last'[c].outcome = "validation"
              => /\ last'[c].reply \in ValidationMessages
                 /\ ~hm[c].created
                 /\ users[c].session = hm[c].session
                 /\ users' = users]_vars

\* a message was rejected by a validator and the rejection reached the user
C9_Rejected == \E c \in Chats : last[c].outcome = "validation" /\ last[c].delivered

\* C10: when a branch of handleMessage ends with an exception that is no
\* ValidationError, the stored session is the one the handler read.
C10_FailureKeepsSession ==
    [][\A c \in Chats :
          hm[c].pc = "read" /\ hm'[c].pc = "idle" /\ last'[c].outcome = "error"
              => users'[c].session = hm[c].session]_vars

C12_FlagStays ==
    [][\A c \in Chats, k \in ReminderKeys :
          k \in users[c].session.reminders => k \in users'[c].session.reminders]_vars

\* C13: a stored session that has a ticketId has a remainingBalance of 0 or none.
C13_TicketedOwesNothing ==
    \A c \in Chats :
        users[c].exists /\ users[c].session.ticketId # NoText
            => users[c].session.remainingBalance \in {0, NoNumber}

\* a payment was confirmed into the session of a chat that holds a ticket
C13_TicketedConfirmed ==
    \E c \in Chats, r \in Refs :
        /\ users[c].exists
        /\ users[c].session.ticketId # NoText
        /\ payments[r].chatId = c
        /\ applied[r] >= 1

\* C14: a handled ticket selection of "b" is answered "out of stock", the session
\* staying in SELECT_TICKET, exactly when the successful VIP payments minus the
\* baseline are at least the allotment; otherwise VIP is selected.  A handled
\* selection of "a" selects GA whatever the count.
C14_GateDecides ==
    [][\A c \in Talkers :
          /\ HandleTicketSelection(c, <<"b">>, FALSE, FALSE, "none")
                 => IF VIPSold - vipBaseline' >= VIP_ADDITIONAL_AVAILABLE
                    THEN /\ last'[c].reply = "vip out of stock"
                         /\ users'[c].session.state = "SELECT_TICKET"
                         /\ users'[c].session.ticketType = hm[c].session.ticketType
                    ELSE /\ last'[c].reply = "ticket confirmation"
                         /\ users'[c].session.state = "AWAITING_EMAIL"
                         /\ users'[c].session.ticketType = "VIP"
          /\ HandleTicketSelection(c, <<"a">>, FALSE, FALSE, "none")
                 => /\ last'[c].reply = "ticket confirmation"
                    /\ users'[c].session.state = "AWAITING_EMAIL"
                    /\ users'[c].session.ticketType = "GA"]_vars

\* "b" was refused with the VIP sales since the baseline exactly at the allotment
C14_RefusedAtAllotment ==
    \E c \in Talkers :
        /\ last[c].route = "SELECT_TICKET"
        /\ last[c].reply = "vip out of stock"
        /\ VIPSold - vipBaseline = VIP_ADDITIONAL_AVAILABLE

\* C15: the discounted price of a session a coupon was applied to is at least 0
\* and at most the original price.
C15_DiscountInRange ==
    \A c \in Chats :
        couponSession[c].appliedCoupon # NoText
            => /\ 0 <= couponSession[c].discountedPrice
               /\ couponSession[c].discountedPrice <= couponSession[c].originalPrice

\* the session has a payment pending that the deadline sweep has not handled
DeadlinePending(session) ==
    /\ session.ticketId = NoText
    /\ session.walletBalance = NoNumber
    /\ session.remainingBalance > 0
    /\ session.amountPaid > 0

\* a run of the deadline sweep after the cutoff
SweepsAfterCutoff == deadlineRuns' # deadlineRuns /\ now > installmentDeadline

\* C16: a deadline sweep after the cutoff leaves a VIP session that had a payment
\* pending and at least the GA price paid in WALLET_TRANSFER, its wallet
\* balance the amount paid minus the GA price.
C16_SweepDowngrades ==
    [][\A c \in Chats :
          /\ SweepsAfterCutoff
          /\ users[c].exists
          /\ DeadlinePending(users[c].session)
          /\ users[c].session.ticketType = "VIP"
          /\ users[c].session.amountPaid >= GA_PRICE
          => /\ users'[c].session.walletBalance = users[c].session.amountPaid - GA_PRICE
             /\ users'[c].session.state = "WALLET_TRANSFER"]_vars

\* C17: a deadline sweep after the cutoff leaves a session that had a payment
\* pending and less than the GA price paid in WALLET_TRANSFER, its wallet
\* balance the whole amount paid.
C17_SweepRollsOver ==
    [][\A c \in Chats :
          /\ SweepsAfterCutoff
          /\ users[c].exists
          /\ DeadlinePending(users[c].session)
          /\ users[c].session.amountPaid < GA_PRICE
          => /\ users'[c].session.walletBalance = users[c].session.amountPaid
             /\ users'[c].session.state = "WALLET_TRANSFER"]_vars

AwaitingPaymentChat(c) ==
    /\ hm[c].pc = "read"
    /\ hm[c].session.state = "AWAITING_PAYMENT"
    /\ hm'[c].pc = "idle"
    /\ last'[c].route # "menu"

\* the step is a session update of processPaymentSuccess, or a menu/start reset
ProcessorOrReset(c) ==
    \/ applied' # applied
    \/ hm[c].pc = "read" /\ hm'[c].pc = "idle" /\ last'[c].route = "menu"

\* C20: a chat message other than menu/start handled for a session read in
\* AWAITING_PAYMENT leaves the users collection unchanged and, when its reply
\* goes out, replies "please complete your payment"; and the stored state of a
\* session leaves AWAITING_PAYMENT only in a step of the payment processor or
\* of a menu/start reset.
C20_AwaitingPaymentFrame ==
    [][\A c \in Chats :
          /\ AwaitingPaymentChat(c)
             => /\ users' = users
                /\ last'[c].route = "AWAITING_PAYMENT"
                /\ last'[c].outcome = "ok"
                   => last'[c].reply = "please complete your payment"
          /\ (users[c].exists /\ users[c].session.state = "AWAITING_PAYMENT"
              /\ users'[c].session.state # "AWAITING_PAYMENT")
             => ProcessorOrReset(c)]_vars

\* the latest message of the chat got a reply, or the failure to reply was logged
Answered(c) ==
    \/ last[c].delivered /\ last[c].reply # NoText
    \/ last[c].logged

\* C21: every chat message whose session was read is eventually finished by
\* handleMessage, and every finished message, a failed getSession included,
\* got a reply or a logged failure to reply.
C21_AlwaysAnswered ==
    /\ \A c \in Talkers : hm[c].pc = "read" ~> (hm[c].pc = "idle" /\ Answered(c))
    /\ [][\A c \in Talkers :
             (hm'[c].pc = "idle" /\ (hm[c].pc = "read" \/ last'[c] # last[c]))
             => Answered(c)']_vars

\* a handler threw, the apology could not be sent, and the message is finished
C21_ReplyFailedLogged ==
    \E c \in Talkers :
        /\ hm[c].pc = "idle"
        /\ last[c].outcome = "error"
        /\ last[c].route \notin {"none", "getSession"}
        /\ ~last[c].delivered

C23_SweepReachesStore ==
    [][\A c \in Chats :
          /\ SweepsAfterCutoff
          /\ users[c].exists
          /\ DeadlinePending(users[c].session)
          => LET session == getSessionStore(users', c)[c].session IN
             /\ session.state = "WALLET_TRANSFER"
             /\ session.walletBalance = WalletAmount(users[c].session)]_vars

\* C24: once the reminder of a template with triggerDays = 1 is flagged in the
\* stored session of a chat, no step sends the hardcoded 1-day reminder to it.
C24_OnePerThreshold ==
    [][\A c \in Chats :
          "1DaySent" \in users[c].session.reminders
              => sentFor'[c]["oneDaySent"] = sentFor[c]["oneDaySent"]]_vars

\* C25: a step sends a reminder to a chat only when the stored session of the
\* chat has a due date, no ticket and a remaining balance above 0.
C25_RemindsOnlyOwing ==
    [][\A c \in Chats :
          reminded'[c] # reminded[c] => ~SkipsReminder(users[c].session)]_vars

\* the write of a step changed no field of the chat's stored session back to
\* the value the operation had read: a field the step changed is one the
\* operation modified
WritesOwnFields(c, read) ==
    \A k \in SessionKeys :
        users'[c].session[k] # users[c].session[k] => users'[c].session[k] # read[k]

\* C26: the session write of a message handler (menu/start resets apart) and
\* of a reminder sweep changes only fields the operation modified since it
\* read the session; a field another component wrote in between keeps that
\* value.
C26_MergeUpdate ==
    [][\A c \in Chats :
          /\ (hm[c].pc = "read" /\ hm'[c].pc = "idle" /\ last'[c].route # "menu")
                 => WritesOwnFields(c, hm[c].session)
          /\ (sweep.todo # << >> /\ Head(sweep.todo) = c /\ sweep' # sweep)
                 => WritesOwnFields(c, sweep.snapshot[c].session)]_vars

\* handleMessage handled a message with this body for the chat without an error
HandledOk(c, body) ==
    /\ hm[c].pc = "read"
    /\ hm'[c].pc = "idle"
    /\ last'[c].outcome = "ok"
    /\ HandleBody(c, body)

\* the step wrote a pending Payment of this amount for the chat
LinkGenerated(c, amount) ==
    \E r \in Refs : /\ ~payments[r].exists
                     /\ payments'[r].exists
                     /\ payments'[r].chatId = c
                     /\ payments'[r].status = "pending"
                     /\ payments'[r].amount = amount

\* the session is at the coupon question: the state of that name, or what the
\* e-mail step stores for it
AwaitsCouponAnswer(session) ==
    session.state \in {"AWAITING_COUPON_ANSWER", StateConst("AWAITING_COUPON_ANSWER")}

\* C27: for a session at the coupon question, a handled "yes" stores state
\* AWAITING_COUPON_CODE, a handled "no" generates a payment link at the ticket
\* price and stores AWAITING_PAYMENT, and any other handled message that is
\* not menu/start leaves the stored session as it was.
C27_CouponAnswer ==
    [][\A c \in Talkers, body \in Bodies :
          /\ hm[c].pc = "read"
          /\ AwaitsCouponAnswer(hm[c].session)
          /\ ~IsMenuCommand(Msg(body))
          /\ HandledOk(c, body)
          => CASE Msg(body) = <<"y", "e", "s">> ->
                     users'[c].session.state = "AWAITING_COUPON_CODE"
               [] Msg(body) = <<"n", "o">> ->
                     /\ users'[c].session.state = "AWAITING_PAYMENT"
                     /\ LinkGenerated(c, TICKETS[hm[c].session.ticketType].price)
               [] OTHER -> users' = users]_vars

\* C28: handleCouponCode for a session in AWAITING_COUPON_CODE: with a code
\* that is unknown, inactive, used up or expired the session object gets state
\* AWAITING_CONTINUE_ANSWER, no coupon field and no payment link; with a valid
\* code it gets appliedCoupon, originalPrice and discountedPrice, a payment
\* link of the discounted amount is generated and the state is AWAITING_PAYMENT.
C28_CouponCodeOutcome ==
    [][\A c \in Talkers, text \in CouponTexts :
          /\ users[c].session.state = "AWAITING_COUPON_CODE"
          /\ HandleCouponCode(c, text, "none")
          => LET coupon == FindActiveCoupon(UpperCode(text))
                 after == couponSession'[c]
             IN  IF ~coupon.exists \/ CouponSpent(coupon)
                 THEN /\ after.state = "AWAITING_CONTINUE_ANSWER"
                      /\ after.appliedCoupon = NoText
                      /\ after.originalPrice = NoNumber
                      /\ after.discountedPrice = NoNumber
                      /\ payments' = payments
                 ELSE /\ after.appliedCoupon = UpperCode(text)
                      /\ after.originalPrice = TICKETS[users[c].session.ticketType].price
                      /\ after.discountedPrice # NoNumber
                      /\ LinkGenerated(c, after.discountedPrice)
                      /\ after.state = "AWAITING_PAYMENT"]_vars

\* C29: for a stored session in AWAITING_CONTINUE_ANSWER, a handled "yes"
\* generates a payment link at the ticket price and stores AWAITING_PAYMENT;
\* a handled "no" leaves the stored session in MAIN_MENU without ticketType,
\* totalPrice, paymentType and email.
C29_ContinueAnswer ==
    [][\A c \in Talkers, body \in {<<"y", "e", "s">>, <<"n", "o">>} :
          /\ hm[c].pc = "read"
          /\ hm[c].session.state = "AWAITING_CONTINUE_ANSWER"
          /\ HandledOk(c, body)
          => IF body = <<"y", "e", "s">>
             THEN /\ LinkGenerated(c, TICKETS[hm[c].session.ticketType].price)
                  /\ users'[c].session.state = "AWAITING_PAYMENT"
             ELSE /\ users'[c].session.state = "MAIN_MENU"
                  /\ users'[c].session.ticketType = NoText
                  /\ users'[c].session.totalPrice = NoNumber
                  /\ users'[c].session.paymentType = NoText
                  /\ users'[c].session.email = NoEmail]_vars

\* C30: a step of handleCouponCode that applies a coupon with a usage ceiling
\* finds usageCount below maxUsage and raises it by one in the same step.
C30_CeilingCounts ==
    [][\A c \in Talkers, text \in CouponTexts :
          /\ HandleCouponCode(c, text, "none")
          /\ couponSession'[c].appliedCoupon = UpperCode(text)
          /\ coupons[UpperCode(text)].maxUsage # NoNumber
          => /\ coupons[UpperCode(text)].usageCount < coupons[UpperCode(text)].maxUsage
             /\ coupons'[UpperCode(text)].usageCount =
                    coupons[UpperCode(text)].usageCount + 1]_vars

MenuOptionThree(c) ==
    \E body \in Bodies : Msg(body) = <<"3">> /\ HandleMainMenu(c, body, "none")

\* C32: a chat step moves a stored session into WALLET_TRANSFER only as main
\* menu option 3 with a wallet balance above 0; option 3 with a balance of 0 or
\* none leaves it in MAIN_MENU; a valid option handled in WALLET_TRANSFER
\* calls the wallet transfer with the stored balance, stores a balance of 0
\* and state MAIN_MENU.
C32_WalletTransferFlow ==
    [][\A c \in Talkers :
          (hm[c].pc = "read" /\ hm'[c].pc = "idle")
          => /\ (users[c].session.state # "WALLET_TRANSFER"
                 /\ users'[c].session.state = "WALLET_TRANSFER")
                => /\ MenuOptionThree(c)
                   /\ hm[c].session.state = "MAIN_MENU"
                   /\ users[c].session.walletBalance > 0
             /\ (MenuOptionThree(c) /\ users[c].session.walletBalance <= 0)
                => /\ users'[c].session.state = "MAIN_MENU"
                   /\ transfers' = transfers
             /\ (last'[c].route = "WALLET_TRANSFER" /\ last'[c].outcome = "ok")
                => /\ transfers'[c] = Append(transfers[c], users[c].session.walletBalance)
                   /\ users'[c].session.walletBalance = 0
                   /\ users'[c].session.state = "MAIN_MENU"]_vars

\* option 3 opened the transfer of a balance kept through a payment
\* confirmation, the session having been back in MAIN_MENU
C32_TransferOpened ==
    \E c \in Talkers :
        /\ last[c].route = "MAIN_MENU"
        /\ last[c].reply = "wallet balance"
        /\ users[c].session.state = "WALLET_TRANSFER"
        /\ users[c].session.walletBalance > 0

\* C33: no step puts a stored session that is not in SELECT_PAYMENT_TYPE or
\* SELECT_INSTALLMENT_PLAN into one of these states, so a chat that starts in
\* WELCOME never is in one; and a message other than menu/start whose session
\* was read in one of them is handled by the installment-plan handler.
C33_LegacyStates ==
    [][\A c \in Talkers :
          /\ (users'[c].exists /\ users'[c].session.state \in LegacyStates)
                => (users[c].exists /\ users[c].session.state \in LegacyStates)
          /\ (/\ hm[c].pc = "read"
              /\ hm[c].session.state \in LegacyStates
              /\ hm'[c].pc = "idle"
              /\ last'[c].route # "menu")
                => last'[c].route = "SELECT_INSTALLMENT_PLAN"]_vars

\* C34: while the successful VIP payments since the baseline are one short of
\* the allotment, every handled selection of "b" passes the availability check
\* and selects VIP, however many VIP payment links are out unpaid, and every
\* pending VIP payment whose charge.success arrives is recorded as a success
\* whatever the count; so the successes can exceed the allotment.
C34_CapIsSoft ==
    [][/\ \A c \in Chats :
             /\ HandleTicketSelection(c, <<"b">>, FALSE, FALSE, "none")
             /\ VIPSold - vipBaseline = VIP_ADDITIONAL_AVAILABLE - 1
             => /\ last'[c].reply = "ticket confirmation"
                /\ users'[c].session.ticketType = "VIP"
                /\ users'[c].session.state = "AWAITING_EMAIL"
       /\ \A d \in WebhookSlots :
             /\ dl[d].pc = "save"
             /\ payments[dl[d].ref].ticketType = "VIP"
             /\ payments[dl[d].ref].status = "pending"
             /\ RequestSaves(d, FALSE)
             => /\ payments'[dl[d].ref].status = "success"
                /\ VIPSold' = VIPSold + 1]_vars

\* every chat passed the check and selected VIP, every chat has paid a VIP
\* payment link, and the successes since the baseline exceed the allotment
C34_Oversold ==
    /\ \A c \in Chats :
          /\ last[c].route = "SELECT_TICKET"
          /\ last[c].reply = "ticket confirmation"
          /\ users[c].session.ticketType = "VIP"
          /\ \E r \in Refs : /\ payments[r].chatId = c
                             /\ payments[r].ticketType = "VIP"
                             /\ payments[r].status = "success"
    /\ VIPSold - vipBaseline > VIP_ADDITIONAL_AVAILABLE

\* the request of a slot is turned away: the provider does not report its
\* transaction as a success, or no Payment record has its reference
TurnedAway(d) ==
    \/ dl[d].pc = "verify" /\ VerifiedStatus(dl[d].ref) # "success"
    \/ dl[d].pc = "find" /\ ~payments[dl[d].ref].exists

\* C35: a session is written by the payment processor only in the last step of
\* a request that was accepted with the provider's signature (webhook) or
\* with a reference (callback), then verified as a success with the provider,
\* then found its Payment record pending and marked it success, and what it
\* writes is amountPaid, remainingBalance = 0 and state MAIN_MENU; a webhook
\* with a wrong signature, a reference without a Payment record and a
\* verification that is no success end the request with no Payment record and
\* no session changed and no message sent.
C35_WritesOnlyVerified ==
    [][/\ \A c \in Chats :
             users'[c] # users[c]
             => \E d \in Slots :
                   /\ dl[d].pc = "process"
                   /\ dl'[d].pc = "done"
                   /\ provider[dl[d].ref].status = "success"
                   /\ payments[dl[d].ref].exists
                   /\ payments[dl[d].ref].chatId = c
                   /\ users'[c].session =
                          Spread(users[c].session,
                                 [NoKeys EXCEPT !.amountPaid = payments[dl[d].ref].amount,
                                                !.remainingBalance = 0,
                                                !.state = "MAIN_MENU"])
       /\ \A d \in Slots :
             /\ (dl'[d].pc = "verify" /\ dl[d].pc # "verify")
                   => \/ IsCallback(d)
                      \/ \E r \in Refs :
                            WebhookReceives(d, r, "charge.success", PAYSTACK_SECRET)
             /\ (dl'[d].pc = "find" /\ dl[d].pc # "find")
                   => dl[d].pc = "verify" /\ provider[dl[d].ref].status = "success"
             /\ (dl'[d].pc = "save" /\ dl[d].pc # "save")
                   => /\ dl[d].pc = "find"
                      /\ payments[dl[d].ref].exists
                      /\ payments[dl[d].ref].status = "pending"
             /\ (dl'[d].pc = "process" /\ dl[d].pc # "process") => dl[d].pc = "save"
             /\ (dl'[d] # dl[d] /\ TurnedAway(d))
                   => /\ dl'[d].pc = "done"
                      /\ UNCHANGED <<payments, users, applied, confirmed, last, reminded>>
             /\ \A r \in Refs, event \in Events :
                   WebhookReceives(d, r, event, "guess")
                   => /\ dl'[d].pc = "done"
                      /\ dl'[d].code = 401
                      /\ UNCHANGED <<payments, users, applied, confirmed, last, reminded>>]_vars

\* a webhook with a wrong signature was answered 401 while a paid transaction
\* has its Payment record still pending and no session was written
C35_ForgedRefused ==
    /\ \E d \in WebhookSlots : dl[d].pc = "done" /\ dl[d].code = 401
    /\ \E r \in Refs : /\ provider[r].status = "success"
                       /\ payments[r].exists
                       /\ payments[r].status = "pending"
    /\ \A r \in Refs : applied[r] = 0

\* the step saved a pending Payment of this amount for the chat under a
\* reference the provider had not handed out before
RecordedLink(c, amount) ==
    \E r \in Refs : /\ provider[r].status = "none"
                     /\ provider'[r].status = "open"
                     /\ ~payments[r].exists
                     /\ payments'[r].exists
                     /\ payments'[r].chatId = c
                     /\ payments'[r].status = "pending"
                     /\ payments'[r].amount = amount

\* C36: a step that delivers a payment link to a chat, as the reply to its
\* installment plan selection or in a reminder, saves in the same step a
\* pending Payment with the chat id and the amount of the link under a new
\* reference, and so does a link an admin generates; a step that opens a
\* transaction without saving its Payment delivers no link; and no step
\* gives the reference of an existing Payment to another one.
C36_LinkHasRecord ==
    [][/\ \A c \in Chats :
             /\ (/\ hm[c].pc = "read"
                 /\ hm'[c].pc = "idle"
                 /\ last'[c].outcome = "ok"
                 /\ last'[c].reply = "installment payment link")
                => RecordedLink(c, INSTALLMENT_PLANS[hm[c].session.ticketType]
                                       [users'[c].session.installmentPlan][1])
             /\ reminded'[c] # reminded[c]
                => RecordedLink(c, sweep.snapshot[c].session.remainingBalance)
             /\ \A ticketType \in {"GA", "VIP", NoText} :
                   AdminGeneratesLink(c, ticketType, "none")
                   => \E amount \in {GA_PRICE, VIP_PRICE} : RecordedLink(c, amount)
       /\ (\E r \in Refs : provider'[r] # provider[r] /\ provider'[r].status = "open"
                            /\ ~payments'[r].exists)
             => /\ reminded' = reminded
                /\ \A c \in Chats : last'[c] # last[c] => last'[c].outcome = "error"
       /\ \A r \in Refs :
             payments[r].exists
             => /\ payments'[r].exists
                /\ payments'[r].chatId = payments[r].chatId
                /\ payments'[r].amount = payments[r].amount]_vars

\* a chat got the link of its first instalment, and the Payment records of
\* the chat are two, each under its own reference
C36_TwoLinksTwoRecords ==
    \E c \in Talkers :
        /\ last[c].reply = "installment payment link"
        /\ last[c].delivered
        /\ \A r \in Refs : payments[r].exists /\ payments[r].chatId = c
        /\ \E r \in Refs :
               payments[r].amount = INSTALLMENT_PLANS[users[c].session.ticketType]
                                        [users[c].session.installmentPlan][1]

\* C37: every Payment record that has status success leads to its session
\* update and its confirmation message, under fair scheduling of the requests
\* and with the webhook of every paid transaction delivered again and again.
C37_SuccessReachesSession ==
    \A r \in Refs :
        (payments[r].exists /\ payments[r].status = "success")
            ~> (applied[r] >= 1 /\ confirmed[r] >= 1)

\* C38: the wallet transfer is called at most once with the credited balance
\* of a chat, whatever messages the chat sends in WALLET_TRANSFER and whatever
\* fails after the call; the wallet of a chat is credited at most once here,
\* by the rollover its stored session comes from.
C38_TransferredOnce ==
    \A c \in Chats :
        Cardinality({i \in 1..Len(transfers[c]) : transfers[c][i] > 0}) <= 1

\* the sweep assigns the wallet balance of the entry of a chat in this step
SweepCredits(c) ==
    /\ deadlineRuns' # deadlineRuns
    /\ userSessions[c].has
    /\ userSessions'[c].session.walletBalance # userSessions[c].session.walletBalance

C40_WalletWithinPaid ==
    [][\A c \in Chats :
          /\ SweepCredits(c)
             => /\ userSessions'[c].session.walletBalance >= 0
                /\ userSessions'[c].session.walletBalance
                      <= userSessions[c].session.amountPaid
          /\ (~SweepCredits(c)
              /\ userSessions'[c].session.walletBalance
                    # userSessions[c].session.walletBalance)
             => userSessions'[c].session.walletBalance = 0
          /\ (users'[c].exists
              /\ users'[c].session.walletBalance # users[c].session.walletBalance
              /\ users'[c].session.walletBalance # NoNumber)
             => users'[c].session.walletBalance = 0]_vars

\* the sweep has left a downgraded entry with the rest above the GA price in
\* its wallet, and an entry rolled over with all it paid
C40_DowngradedAndRolledOver ==
    /\ deadlineRuns > 0
    /\ \E c \in Chats :
          /\ userSessions[c].session.state = "WALLET_TRANSFER"
          /\ userSessions[c].session.walletBalance = userSessions[c].session.amountPaid - GA_PRICE
          /\ userSessions[c].session.walletBalance > 0
    /\ \E c \in Chats :
          /\ userSessions[c].session.state = "WALLET_TRANSFER"
          /\ userSessions[c].session.ticketType = "VIP"
          /\ userSessions[c].session.walletBalance = userSessions[c].session.amountPaid


=============================================================================
